---- MODULE Spec2Model ----
(***************************************************************************)
(* Identity service of social_media_microservices: credential store with   *)
(* lockout (models/User.js), token issuance (utils/generateToken.js), the  *)
(* two refresh handlers, session revocation and the login flow             *)
(* (controllers).  Every handler is an async function: it is modelled as a *)
(* sequence of steps, one per database operation it awaits, so that two    *)
(* requests interleave exactly at their await points.  The email and SMS   *)
(* senders (utils/emailService.js, utils/smsService.js) are modelled the   *)
(* same way.  Time is counted in minutes.                                  *)
(***************************************************************************)
EXTENDS Integers, Sequences, FiniteSets, TLC

VARIABLES users, tokens, now, production, req, rotated, rnd, sent,
          rateLimits, delivered

vars == <<users, tokens, now, production, req, rotated, rnd, sent,
          rateLimits, delivered>>

(* ---------------------------- bounds ---------------------------------- *)
MaxUsers == 2
MaxTokens == 3
MaxAttempts == 11
MaxNow == 12000
LockHorizon == 32
MaxLockTokens == 2
MaxRandom == 4
NumPasswords == 2
NumHistoryPasswords == 7
MaxIndependentFailures == 1
MaxIndependentRandom == 1
MaxSends == 7
MaxSendNow == 61

(* ------------------------ program constants --------------------------- *)
RefreshTokenDays == 7
LockThreshold == 5
LongLockThreshold == 10
LongLockHours == 24
HistoryLimit == 5
HashTag == 100
BackupCodeCount == 10
TotpSecretTag == 1000
TotpCodeTag == 2000
BackupCodeTag == 3000
NoSecret == 0
OneTimeCodeTag == 4000
PhoneTag == 5000
EmailMarker == 6000
RandomSecretTag == 7000
MaxEmailsPerHour == 5
MaxSmsPerHour == 5
OneHour == 60

Reqs == {1, 2}
Passwords == 1..NumPasswords
Emails == {"a@x.com", "b@x.com"}
PhoneNumbers == { PhoneTag + 1 }
Usernames == {"alice", "bob"}
Accounts == { <<"alice", "a@x.com">>, <<"bob", "b@x.com">> }
IPs == {"ip1", "ip2"}
UnknownIp == "unknown"
NoDate == -1
MinutesPerDay == 24 * 60

(* --------------------------- pure helpers ----------------------------- *)
RECURSIVE Pow2(_)
Pow2(n) == IF n = 0 THEN 1 ELSE 2 * Pow2(n - 1)

\* argon2.hash / argon2.verify: the hash is not the plaintext, and a
\* plaintext verifies against a hash exactly when the hash was made from it.
\* Argon2Hash that stores the plaintext.
Argon2HashPlain(p) == p

Argon2Hash(p) == HashTag + p
Argon2Verify(h, p) == h = Argon2Hash(p)

\* A user document as the schema creates it (defaults of userSchema).
NewUser(username, email, password) ==
  [ username |-> username, email |-> email, password |-> password,
    passwordHistory |-> <<>>, failedLoginAttempts |-> 0, lockUntil |-> NoDate,
    mfaEnabled |-> FALSE, mfaMethod |-> "none", mfaSecret |-> 0,
    backupCodes |-> <<>> ]

NoUser == NewUser("", "", 0)

\* A refresh-token document (refreshTokenSchema defaults).
NewToken(user, ip, expiresAt) ==
  [ user |-> user, ip |-> ip, expiresAt |-> expiresAt, isRevoked |-> FALSE,
    revokedReason |-> "", present |-> TRUE ]

\* The email path of userSchema is declared lowercase: true: mongoose
\* lowercases the value when a document is built and when a query filter is
\* cast.
Lowercase(email) == IF email = "A@X.COM" THEN "a@x.com" ELSE email

\* User.findOne({ email }) / findOne({ $or: [{username}, {email}] }): the
\* _id of a matching user, 0 when there is none.
UserIds == 1..Len(users)
FindByEmail(email) ==
  IF \E u \in UserIds : users[u].email = Lowercase(email)
  THEN CHOOSE u \in UserIds : users[u].email = Lowercase(email)
  ELSE 0
ExistsUser(username, email) ==
  \E u \in UserIds : users[u].username = username \/ users[u].email = Lowercase(email)

TokenIds == 1..Len(tokens)

\* IsLocked that still holds at the instant lockUntil.
IsLockedInclusive(doc, t) == doc.lockUntil # NoDate /\ doc.lockUntil >= t

\* comparePassword, lines 133-138: the lock test on the loaded document.
IsLocked(doc, t) == doc.lockUntil # NoDate /\ doc.lockUntil > t

\* FailedAttempt with the first lock one attempt late.
FailedAttemptLate(doc, t) ==
  LET n == doc.failedLoginAttempts + 1 IN
  [ doc EXCEPT !.failedLoginAttempts = n,
               !.lockUntil = IF n >= LongLockThreshold
                             THEN t + LongLockHours * 60
                             ELSE IF n > LockThreshold
                                  THEN t + Pow2(n - LockThreshold)
                                  ELSE @ ]

\* comparePassword, lines 148-160: the document after a failed verification.
\* With the lock test of lines 153-160 applied at time t.
FailedAttempt(doc, t) ==
  LET n == doc.failedLoginAttempts + 1 IN
  [ doc EXCEPT !.failedLoginAttempts = n,
               !.lockUntil = IF n >= LongLockThreshold
                             THEN t + LongLockHours * 60
                             ELSE IF n >= LockThreshold
                                  THEN t + Pow2(n - LockThreshold)
                                  ELSE @ ]

\* ResetAttempts that forgets to clear the lock.
ResetCounterOnly(doc) ==
  IF doc.failedLoginAttempts > 0
  THEN [ doc EXCEPT !.failedLoginAttempts = 0 ]
  ELSE doc

\* comparePassword, lines 166-172: the document after a successful verification.
ResetAttempts(doc) ==
  IF doc.failedLoginAttempts > 0
  THEN [ doc EXCEPT !.failedLoginAttempts = 0, !.lockUntil = NoDate ]
  ELSE doc

\* document.save(): mongoose writes the paths whose value differs from the
\* value that was loaded, and leaves every other stored path as it is.
SaveDoc(stored, loaded, doc) ==
  [ f \in DOMAIN stored |-> IF doc[f] # loaded[f] THEN doc[f] ELSE stored[f] ]

(* ----------------------------- requests ------------------------------- *)
IdleReq ==
  [ pc |-> "idle", op |-> "", email |-> "", username |-> "", pw |-> 0,
    newpw |-> 0, tok |-> 0, ip |-> "", uid |-> 0, loaded |-> NoUser,
    doc |-> NoUser, found |-> 0, status |-> 0, msg |-> "", out |-> 0,
    hashed |-> FALSE, method |-> "", phone |-> 0, stale |-> FALSE,
    \* observation only, never read by a handler: the user document as it was
    \* first loaded, whether the lock test rejected the request, whether the
    \* request overlapped another request for the same user or token, and what
    \* the token lookup saw.
    before |-> NoUser, locked |-> FALSE, overlap |-> FALSE, valid |-> FALSE,
    mismatch |-> FALSE, reuse |-> FALSE ]

InFlight == { q \in Reqs : req[q].pc \notin {"idle", "done"} }

\* A request may arrive at slot r; with seq the requests are served one
\* after the other (a new one arrives only when no other is being served).
Arrive(r, seq) ==
  /\ req[r].pc = "idle"
  /\ seq => \A q \in Reqs : req[q].pc = "idle"

\* Room for one more refresh-token document.
Room(limit) == Len(tokens) + Cardinality(InFlight) < limit

Respond(rq, status, msg) ==
  [ rq EXCEPT !.pc = "done", !.status = status, !.msg = msg ]

\* generateTokens(user, ip): a new random refresh token, stored with the
\* user, the ip and an expiry seven days from now.
generateTokens(user, ip) ==
  Append(tokens, NewToken(user, ip, now + RefreshTokenDays * MinutesPerDay))

\* The senders: "email" is EmailService, "sms" is SMSService; each has its
\* own rateLimits map, keyed by the addresses it sends to.
Services == {"email", "sms"}
Recipients == [ email |-> {"a@x.com"}, sms |-> PhoneNumbers ]
MaxPerHour == [ email |-> MaxEmailsPerHour, sms |-> MaxSmsPerHour ]

\* An address without an entry in rateLimits.
NoLimit == [ count |-> 0, resetTime |-> NoDate ]

\* The state after construction: empty collections; NODE_ENV is "production"
\* or not, and does not change while the service runs.
InitEnv(envs) ==
  /\ users = <<>>
  /\ tokens = <<>>
  /\ now = 0
  /\ production \in envs
  /\ req = [ r \in Reqs |-> IdleReq ]
  /\ rotated = {}
  /\ rnd = 0
  /\ sent = {}
  /\ rateLimits = [ svc \in Services |-> [ to \in Recipients[svc] |-> NoLimit ] ]
  /\ delivered = [ svc \in Services |-> [ to \in Recipients[svc] |-> <<>> ] ]

(* ---------------------------- registerUser ---------------------------- *)
\* lines 112-130: validation, then the duplicate lookup.
registerUser_findOne(r, seq, limit, username, email, password) ==
  /\ Arrive(r, seq)
  /\ Len(users) + Cardinality({ q \in InFlight : req[q].op = "register" }) < MaxUsers
  /\ Room(limit)
  /\ req' = [ req EXCEPT ![r] =
       IF ExistsUser(username, email)
       THEN Respond([ IdleReq EXCEPT !.op = "register", !.username = username,
                                     !.email = email ], 400, "User already exists")
       ELSE [ IdleReq EXCEPT !.op = "register", !.pc = "save", !.username = username,
                             !.email = email, !.pw = password ] ]
  /\ UNCHANGED <<users, tokens, now, production, rotated, rnd, sent, rateLimits, delivered>>

\* lines 132-133 with the pre-save hook (User.js 88-127) for a new document:
\* the password is hashed, the unique indexes reject a duplicate.
registerUser_save(r) ==
  /\ req[r].pc = "save" /\ req[r].op = "register"
  /\ IF ExistsUser(req[r].username, req[r].email)
     THEN /\ req' = [ req EXCEPT ![r] = Respond(@, 500, "Internal Server Error") ]
          /\ UNCHANGED users
     ELSE /\ users' = Append(users, NewUser(req[r].username, Lowercase(req[r].email),
                                            Argon2Hash(req[r].pw)))
          /\ req' = [ req EXCEPT ![r].pc = "tokens", ![r].uid = Len(users) + 1 ]
  /\ UNCHANGED <<tokens, now, production, rotated, rnd, sent, rateLimits, delivered>>

\* lines 135-143: generateTokens(user) and the 201 response.
registerUser_generateTokens(r) ==
  /\ req[r].pc = "tokens" /\ req[r].op = "register"
  /\ tokens' = generateTokens(req[r].uid, UnknownIp)
  /\ req' = [ req EXCEPT ![r] =
       [ Respond(@, 201, "User registered successfully") EXCEPT !.out = Len(tokens) + 1 ] ]
  /\ UNCHANGED <<users, now, production, rotated, rnd, sent, rateLimits, delivered>>

(* ------------------------------ loginUser ----------------------------- *)
\* Another request for the same user is being served.
Overlaps(r, u) ==
  \E q \in InFlight : q # r /\ u # 0 /\ req[q].uid = u

\* LockTest with the lock tested after argon2.verify has run.
LockTestAfterVerify(rq, doc, t, generic) ==
  IF IsLocked(doc, t)
  THEN [ Respond(rq, 500, generic) EXCEPT !.locked = TRUE, !.hashed = TRUE ]
  ELSE [ rq EXCEPT !.pc = "verify" ]

\* comparePassword 131-145 with the catch of its caller: a locked document
\* makes comparePassword throw before argon2.verify is called, and the
\* handler's catch block answers 500 with its generic message; otherwise
\* the verification is started.
LockTest(rq, doc, t, generic) ==
  IF IsLocked(doc, t)
  THEN [ Respond(rq, 500, generic) EXCEPT !.locked = TRUE ]
  ELSE [ rq EXCEPT !.pc = "verify" ]

\* lines 162-172 and comparePassword 130-145: the user is loaded, then
\* comparePassword tests the lock and starts the hash verification.
loginUser_findOne(r, seq, limit, email, password) ==
  /\ Arrive(r, seq)
  /\ Room(limit)
  /\ LET u == FindByEmail(email) IN
     /\ u # 0 => (users[u].failedLoginAttempts < MaxAttempts
                  \/ Argon2Verify(users[u].password, password))
     /\ req' = [ q \in Reqs |->
          IF q = r
          THEN LET rq == [ IdleReq EXCEPT !.op = "login", !.email = email,
                                          !.pw = password, !.uid = u ] IN
               IF u = 0 THEN Respond(rq, 400, "User not found")
               ELSE LockTest([ rq EXCEPT !.loaded = users[u], !.doc = users[u],
                                         !.before = users[u],
                                         !.overlap = Overlaps(r, u) ],
                             users[u], now, "Internal Server Error")
          ELSE IF Overlaps(r, u) /\ q \in InFlight /\ req[q].uid = u
               THEN [ req[q] EXCEPT !.overlap = TRUE ]
               ELSE req[q] ]
  /\ UNCHANGED <<users, tokens, now, production, rotated, rnd, sent, rateLimits, delivered>>

\* comparePassword 141-175 and loginUser 173-178: the verification result,
\* the counter update and its save.
comparePassword(r) ==
  /\ req[r].pc = "verify"
  /\ LET rq == req[r]
         u == rq.uid
         isMatch == Argon2Verify(rq.doc.password, rq.pw)
         doc == IF isMatch THEN ResetAttempts(rq.doc) ELSE FailedAttempt(rq.doc, now)
         rq2 == [ rq EXCEPT !.hashed = TRUE, !.doc = doc, !.loaded = doc ]
     IN
     /\ users' = [ users EXCEPT ![u] = SaveDoc(@, rq.loaded, doc) ]
     /\ req' = [ req EXCEPT ![r] =
          IF isMatch THEN [ rq2 EXCEPT !.pc = "match" ]
          ELSE IF rq.op = "login" THEN Respond(rq2, 400, "Invalid password")
               ELSE Respond(rq2, 400, "Current password is incorrect") ]
  /\ UNCHANGED <<tokens, now, production, rotated, rnd, sent, rateLimits, delivered>>

\* lines 180-187: generateTokens(user) and the 200 response.
loginUser_generateTokens(r) ==
  /\ req[r].pc = "match" /\ req[r].op = "login"
  /\ tokens' = generateTokens(req[r].uid, UnknownIp)
  /\ req' = [ req EXCEPT ![r] =
       [ Respond(@, 200, "User logged in successfully") EXCEPT !.out = Len(tokens) + 1 ] ]
  /\ UNCHANGED <<users, now, production, rotated, rnd, sent, rateLimits, delivered>>

(* ---------------------------- changePassword -------------------------- *)
\* isPasswordReused (User.js 183-201): the new password verifies against
\* one of the stored history hashes.
\* isPasswordReused that skips the oldest history entry.
isPasswordReusedRecent(doc, newPassword) ==
  \E i \in 2..Len(doc.passwordHistory) :
     Argon2Verify(doc.passwordHistory[i], newPassword)

isPasswordReused(doc, newPassword) ==
  \E i \in 1..Len(doc.passwordHistory) :
     Argon2Verify(doc.passwordHistory[i], newPassword)

\* changePassword 904-908: the message of the reuse rejection.
ReusedMessage == "Password has been used before, please choose a different password"

\* SliceLast that keeps the first n elements instead.
SliceFirst(s, n) ==
  IF Len(s) > n THEN SubSeq(s, 1, n) ELSE s

\* Array.slice(-n): the last n elements.
SliceLast(s, n) ==
  IF Len(s) > n THEN SubSeq(s, Len(s) - n + 1, Len(s)) ELSE s

\* PreSave that never cuts the history.
PreSaveNoSlice(doc, current) ==
  [ doc EXCEPT !.passwordHistory = Append(@, current),
               !.password = Argon2Hash(doc.password),
               !.failedLoginAttempts = 0,
               !.lockUntil = NoDate ]

\* The pre-save hook (User.js 88-127) for an existing document whose
\* password was modified; current is the stored password it reads back.
PreSave(doc, current) ==
  [ doc EXCEPT !.passwordHistory = SliceLast(Append(@, current), HistoryLimit),
               !.password = Argon2Hash(doc.password),
               !.failedLoginAttempts = 0,
               !.lockUntil = NoDate ]

\* RevokeActive without the user filter.
RevokeEveryUser(uid, reason) ==
  [ t \in TokenIds |->
      IF tokens[t].present /\ ~tokens[t].isRevoked
      THEN [ tokens[t] EXCEPT !.isRevoked = TRUE, !.revokedReason = reason ]
      ELSE tokens[t] ]

\* RefreshToken.updateMany({ user, isRevoked: false }, { isRevoked: true,
\* revokedReason }): every stored token of the user that is not yet revoked.
RevokeActive(uid, reason) ==
  [ t \in TokenIds |->
      IF tokens[t].present /\ tokens[t].user = uid /\ ~tokens[t].isRevoked
      THEN [ tokens[t] EXCEPT !.isRevoked = TRUE, !.revokedReason = reason ]
      ELSE tokens[t] ]

\* SameAsCurrent that lets every pair through.
SameAsCurrentNever(currentPassword, newPassword) == FALSE

\* validation.js 106 (newPassword disallows the value of currentPassword)
\* and changePassword 894 (currentPassword === newPassword).
SameAsCurrent(currentPassword, newPassword) == currentPassword = newPassword

\* The route's validatePasswordChange (validation.js 94-127, newPassword
\* disallows the current password), then changePassword 870-883 with the
\* lock test of comparePassword.
changePassword_findById(r, seq, uid, currentPassword, newPassword) ==
  /\ Arrive(r, seq)
  /\ uid \in UserIds
  /\ users[uid].failedLoginAttempts < MaxAttempts
       \/ Argon2Verify(users[uid].password, currentPassword)
  /\ req' = [ q \in Reqs |->
       IF q = r
       THEN LET rq == [ IdleReq EXCEPT !.op = "changePassword", !.uid = uid,
                                       !.pw = currentPassword, !.newpw = newPassword ] IN
            IF SameAsCurrent(currentPassword, newPassword)
            THEN Respond(rq, 400, "New password must be different from current password")
            ELSE LockTest([ rq EXCEPT !.loaded = users[uid], !.doc = users[uid],
                                      !.before = users[uid],
                                      !.overlap = Overlaps(r, uid) ],
                          users[uid], now, "Failed to change password")
       ELSE IF Overlaps(r, uid) /\ q \in InFlight /\ req[q].uid = uid
            THEN [ req[q] EXCEPT !.overlap = TRUE ]
            ELSE req[q] ]
  /\ UNCHANGED <<users, tokens, now, production, rotated, rnd, sent, rateLimits, delivered>>

\* lines 893-915 up to the hook's findById (User.js 95): the two reuse
\* tests, then the hook reads the stored password back.
changePassword_isPasswordReused(r) ==
  /\ req[r].pc = "match" /\ req[r].op = "changePassword"
  /\ req' = [ req EXCEPT ![r] =
       LET rq == req[r] IN
       IF SameAsCurrent(rq.pw, rq.newpw)
       THEN Respond(rq, 400, "New password must be different from current password")
       ELSE IF isPasswordReused(rq.doc, rq.newpw)
            THEN Respond(rq, 400, ReusedMessage)
            ELSE [ rq EXCEPT !.pc = "presave", !.doc.password = rq.newpw,
                             !.found = users[rq.uid].password ] ]
  /\ UNCHANGED <<users, tokens, now, production, rotated, rnd, sent, rateLimits, delivered>>

\* User.js 97-120 and the save itself.
changePassword_save(r) ==
  /\ req[r].pc = "presave"
  /\ LET rq == req[r]
         doc == PreSave(rq.doc, rq.found) IN
     /\ users' = [ users EXCEPT ![rq.uid] = SaveDoc(@, rq.loaded, doc) ]
     /\ req' = [ req EXCEPT ![r] = [ rq EXCEPT !.pc = "revoke", !.doc = doc,
                                               !.loaded = doc ] ]
  /\ UNCHANGED <<tokens, now, production, rotated, rnd, sent, rateLimits, delivered>>

\* lines 917-929: the user's tokens are revoked, then the 200 response.
changePassword_updateMany(r) ==
  /\ req[r].pc = "revoke" /\ req[r].op = "changePassword"
  /\ tokens' = RevokeActive(req[r].uid, "Password changed")
  /\ req' = [ req EXCEPT ![r] = Respond(@, 200, "Password changed successfully") ]
  /\ UNCHANGED <<users, now, production, rotated, rnd, sent, rateLimits, delivered>>

(* ------------------------ the refresh handlers ------------------------ *)
\* The token document a client's refresh-token string denotes; 0 stands
\* for a string that was never issued.
Stored(tok) == tok \in TokenIds /\ tokens[tok].present

\* Another refresh request presenting the same token is being served.
SameToken(r, tok) ==
  \E q \in InFlight :
     q # r /\ req[q].op \in {"refreshTokenController", "refreshAccessToken"}
           /\ req[q].tok = tok

\* What a refresh request is observed to present when it arrives.
Presented(r, op, tok, ip) ==
  LET live == Stored(tok) /\ ~tokens[tok].isRevoked /\ tokens[tok].expiresAt > now IN
  [ IdleReq EXCEPT !.op = op, !.tok = tok, !.ip = ip,
                   !.uid = IF Stored(tok) THEN tokens[tok].user ELSE 0,
                   !.valid = live,
                   !.mismatch = live /\ tokens[tok].ip # ip,
                   !.reuse = tok \in rotated,
                   !.overlap = SameToken(r, tok) ]

MarkOverlap(r, tok, rq) ==
  [ q \in Reqs |->
      IF q = r THEN rq
      ELSE IF SameToken(r, tok) /\ q \in InFlight /\ req[q].tok = tok
                /\ req[q].op \in {"refreshTokenController", "refreshAccessToken"}
           THEN [ req[q] EXCEPT !.overlap = TRUE ]
           ELSE req[q] ]

\* refreshTokenController 198-227: the token is looked up by its string
\* alone and rejected when absent or past its expiry; then its user is
\* loaded.
refreshTokenController_findOne(r, seq, limit, tok) ==
  /\ Arrive(r, seq)
  /\ Room(limit)
  /\ LET rq == Presented(r, "refreshTokenController", tok, UnknownIp) IN
     req' = MarkOverlap(r, tok,
       IF ~Stored(tok) \/ tokens[tok].expiresAt < now
       THEN Respond(rq, 400, "Invalid or expired refresh token")
       ELSE [ rq EXCEPT !.pc = "tokens", !.found = tok ])
  /\ UNCHANGED <<users, tokens, now, production, rotated, rnd, sent, rateLimits, delivered>>

\* refreshTokenController 229-230: generateTokens(user).
refreshTokenController_generateTokens(r) ==
  /\ req[r].pc = "tokens" /\ req[r].op = "refreshTokenController"
  /\ tokens' = generateTokens(req[r].uid, UnknownIp)
  /\ req' = [ req EXCEPT ![r].pc = "delete", ![r].out = Len(tokens) + 1 ]
  /\ UNCHANGED <<users, now, production, rotated, rnd, sent, rateLimits, delivered>>

\* refreshTokenController 232-238: the used token is deleted, then the 200
\* response.
refreshTokenController_deleteOne(r) ==
  /\ req[r].pc = "delete"
  /\ tokens' = [ tokens EXCEPT ![req[r].found].present = FALSE ]
  /\ req' = [ req EXCEPT ![r] = Respond(@, 200, "Token refreshed successfully") ]
  /\ rotated' = rotated \cup {req[r].tok}
  /\ UNCHANGED <<users, now, production, rnd, sent, rateLimits, delivered>>

\* refreshAccessToken 1139-1145: the theft test on the found document.
IpMismatch(doc, ip) ==
  doc.ip # "" /\ doc.ip # UnknownIp /\ doc.ip # ip /\ production

\* refreshAccessToken 1109-1163: the token is looked up among the unrevoked,
\* unexpired ones; then the theft test.
refreshAccessToken_findOne(r, seq, limit, tok, ip) ==
  /\ Arrive(r, seq)
  /\ Room(limit)
  /\ LET rq == Presented(r, "refreshAccessToken", tok, ip) IN
     req' = MarkOverlap(r, tok,
       IF ~(Stored(tok) /\ ~tokens[tok].isRevoked /\ tokens[tok].expiresAt > now)
       THEN Respond(rq, 401, "Invalid or expired refresh token")
       ELSE IF IpMismatch(tokens[tok], ip)
            THEN [ rq EXCEPT !.pc = "theft", !.found = tok ]
            ELSE [ rq EXCEPT !.pc = "rotate", !.found = tok ])
  /\ UNCHANGED <<users, tokens, now, production, rotated, rnd, sent, rateLimits, delivered>>

\* RevokeAll without the user filter.
RevokeAllOwners(uid, reason) ==
  [ t \in TokenIds |->
      IF tokens[t].present
      THEN [ tokens[t] EXCEPT !.isRevoked = TRUE, !.revokedReason = reason ]
      ELSE tokens[t] ]

\* RefreshToken.updateMany({ user }, { isRevoked: true, revokedReason }).
RevokeAll(uid, reason) ==
  [ t \in TokenIds |->
      IF tokens[t].present /\ tokens[t].user = uid
      THEN [ tokens[t] EXCEPT !.isRevoked = TRUE, !.revokedReason = reason ]
      ELSE tokens[t] ]

\* refreshAccessToken 1150-1162: every token of the owner is revoked, then
\* the 401 response.
refreshAccessToken_updateMany(r) ==
  /\ req[r].pc = "theft"
  /\ tokens' = RevokeAll(req[r].uid, "Security breach - token used from different IP")
  /\ req' = [ req EXCEPT ![r] = Respond(@, 401, "Security alert: Please login again") ]
  /\ UNCHANGED <<users, now, production, rotated, rnd, sent, rateLimits, delivered>>

\* refreshAccessToken 1166-1181: the user is loaded, the found document is
\* marked revoked and saved; saving a document that is no longer stored
\* fails, and the catch block answers 500.
refreshAccessToken_save(r) ==
  /\ req[r].pc = "rotate"
  /\ IF tokens[req[r].found].present
     THEN /\ tokens' = [ tokens EXCEPT ![req[r].found].isRevoked = TRUE,
                                       ![req[r].found].revokedReason = "Used for token refresh" ]
          /\ req' = [ req EXCEPT ![r].pc = "tokens" ]
     ELSE /\ req' = [ req EXCEPT ![r] = Respond(@, 500, "Failed to refresh token") ]
          /\ UNCHANGED tokens
  /\ UNCHANGED <<users, now, production, rotated, rnd, sent, rateLimits, delivered>>

\* refreshAccessToken 1184-1198: generateTokens(user, ip) and the 200
\* response.
refreshAccessToken_generateTokens(r) ==
  /\ req[r].pc = "tokens" /\ req[r].op = "refreshAccessToken"
  /\ tokens' = generateTokens(req[r].uid, req[r].ip)
  /\ req' = [ req EXCEPT ![r] =
       [ Respond(@, 200, "Token refreshed") EXCEPT !.out = Len(tokens) + 1 ] ]
  /\ rotated' = rotated \cup {req[r].tok}
  /\ UNCHANGED <<users, now, production, rnd, sent, rateLimits, delivered>>

\* The catch block of a refresh handler (refreshTokenController 239-242,
\* refreshAccessToken 1199-1205): the database operation the request is
\* about to await rejects, nothing is written by it, and the answer is 500.
\* What the request wrote before stays written.
catchError(r) ==
  /\ req[r].op \in {"refreshTokenController", "refreshAccessToken"}
  /\ req[r].pc \in {"tokens", "delete", "rotate", "theft"}
  /\ req' = [ req EXCEPT ![r] =
       Respond(@, 500, IF @.op = "refreshAccessToken"
                       THEN "Failed to refresh token"
                       ELSE "Internal Server Error") ]
  /\ UNCHANGED <<users, tokens, now, production, rotated, rnd, sent, rateLimits, delivered>>

(* ------------------------- logout and sessions ------------------------ *)
\* logoutController 246-267: RefreshToken.deleteOne({ token }).
logoutController(r, seq, tok) ==
  /\ Arrive(r, seq)
  /\ tok # 0
  /\ tokens' = [ t \in TokenIds |->
                   IF t = tok THEN [ tokens[t] EXCEPT !.present = FALSE ] ELSE tokens[t] ]
  /\ req' = [ req EXCEPT ![r] =
       Respond([ IdleReq EXCEPT !.op = "logoutController", !.tok = tok ],
               200, "Logged out successfully") ]
  /\ UNCHANGED <<users, now, production, rotated, rnd, sent, rateLimits, delivered>>

\* revokeRefreshToken 1211-1254: RefreshToken.updateOne({ token },
\* { isRevoked: true, revokedReason }).
revokeRefreshToken(r, seq, tok) ==
  /\ Arrive(r, seq)
  /\ tok # 0
  /\ LET reason == "Manually revoked by user (logout)"
         after == [ t \in TokenIds |->
                     IF t = tok /\ tokens[t].present
                     THEN [ tokens[t] EXCEPT !.isRevoked = TRUE, !.revokedReason = reason ]
                     ELSE tokens[t] ] IN
     /\ tokens' = after
     /\ req' = [ req EXCEPT ![r] =
          Respond([ IdleReq EXCEPT !.op = "revokeRefreshToken", !.tok = tok ], 200,
                  IF after = tokens THEN "Token already revoked or not found"
                  ELSE "Token revoked successfully") ]
  /\ UNCHANGED <<users, now, production, rotated, rnd, sent, rateLimits, delivered>>

\* revokeSession without the user in the filter.
revokeSessionAnyOwner(r, seq, uid, tokenId) ==
  /\ Arrive(r, seq)
  /\ uid \in UserIds
  /\ LET hit == Stored(tokenId) /\ ~tokens[tokenId].isRevoked IN
     /\ tokens' = IF hit
                   THEN [ tokens EXCEPT ![tokenId].isRevoked = TRUE,
                                        ![tokenId].revokedReason = "Manually revoked by user" ]
                   ELSE tokens
     /\ req' = [ req EXCEPT ![r] =
          LET rq == [ IdleReq EXCEPT !.op = "revokeSession", !.uid = uid, !.tok = tokenId ] IN
          IF hit THEN Respond(rq, 200, "Session revoked successfully")
          ELSE Respond(rq, 404, "Session not found or already revoked") ]
  /\ UNCHANGED <<users, now, production, rotated, rnd, sent, rateLimits, delivered>>

\* revokeSession 968-1005: RefreshToken.updateOne({ _id, user, isRevoked:
\* false }, { isRevoked: true, revokedReason }).
revokeSession(r, seq, uid, tokenId) ==
  /\ Arrive(r, seq)
  /\ uid \in UserIds
  /\ LET hit == Stored(tokenId) /\ tokens[tokenId].user = uid
                                /\ ~tokens[tokenId].isRevoked IN
     /\ tokens' = IF hit
                   THEN [ tokens EXCEPT ![tokenId].isRevoked = TRUE,
                                        ![tokenId].revokedReason = "Manually revoked by user" ]
                   ELSE tokens
     /\ req' = [ req EXCEPT ![r] =
          LET rq == [ IdleReq EXCEPT !.op = "revokeSession", !.uid = uid, !.tok = tokenId ] IN
          IF hit THEN Respond(rq, 200, "Session revoked successfully")
          ELSE Respond(rq, 404, "Session not found or already revoked") ]
  /\ UNCHANGED <<users, now, production, rotated, rnd, sent, rateLimits, delivered>>

\* revokeAllSessions 1010-1041: RefreshToken.updateMany({ user, isRevoked:
\* false, expiresAt: { $gt: now } }, { isRevoked: true, revokedReason }).
revokeAllSessions(r, seq, uid) ==
  /\ Arrive(r, seq)
  /\ uid \in UserIds
  /\ tokens' = [ t \in TokenIds |->
                   IF tokens[t].present /\ tokens[t].user = uid /\ ~tokens[t].isRevoked
                      /\ tokens[t].expiresAt > now
                   THEN [ tokens[t] EXCEPT !.isRevoked = TRUE,
                                           !.revokedReason = "All sessions revoked by user" ]
                   ELSE tokens[t] ]
  /\ req' = [ req EXCEPT ![r] =
       Respond([ IdleReq EXCEPT !.op = "revokeAllSessions", !.uid = uid ],
               200, "All sessions revoked successfully") ]
  /\ UNCHANGED <<users, now, production, rotated, rnd, sent, rateLimits, delivered>>

\* getActiveSessions without the isRevoked filter.
getActiveSessionsAnyFlag(uid) ==
  { t \in TokenIds : /\ tokens[t].present /\ tokens[t].user = uid
                     /\ tokens[t].expiresAt > now }

\* getActiveSessions 942-955: RefreshToken.find({ user, isRevoked: false,
\* expiresAt: { $gt: now } }); the sessions the 200 response lists.
getActiveSessions(uid) ==
  { t \in TokenIds : /\ tokens[t].present /\ tokens[t].user = uid
                     /\ ~tokens[t].isRevoked /\ tokens[t].expiresAt > now }

\* The TTL index of refreshTokenSchema (expireAfterSeconds: 0): the store
\* removes a document whose expiresAt has passed.
TtlExpire ==
  /\ \E t \in TokenIds :
       /\ tokens[t].present /\ tokens[t].expiresAt <= now
       /\ tokens' = [ tokens EXCEPT ![t].present = FALSE ]
  /\ UNCHANGED <<users, now, production, req, rotated, rnd, sent, rateLimits, delivered>>

(* --------------------------------- MFA -------------------------------- *)
\* authenticator.generateSecret(): the next value of the random source.
GenerateSecret == TotpSecretTag + rnd + 1

\* The code an authenticator app shows for a secret; authenticator.verify
\* accepts exactly that code.
TotpCode(secret) == TotpCodeTag + (secret - TotpSecretTag)
AuthenticatorVerify(token, secret) == secret # NoSecret /\ token = TotpCode(secret)

\* setupSMS 429-431, setupEmail 541-543: the six-digit code of Math.random.
VerificationCode == OneTimeCodeTag + rnd + 1

\* verifyMFA 721: crypto.randomBytes(20).toString("hex").
RandomHex == RandomSecretTag + rnd + 1

\* verifyTOTP 369-377: ten random backup codes, none of them used.
GenerateBackupCodes ==
  [ i \in 1..BackupCodeCount |->
      [ code |-> BackupCodeTag + BackupCodeCount * rnd + i, used |-> FALSE ] ]

\* Mongoose's version key: a save that replaces an array bumps __v of the
\* stored document, so every request that loaded the document before holds
\* a stale version.  A save that writes an array, or an element of one,
\* carries the loaded __v in its filter and fails with a VersionError when
\* the version is stale.
Bump(r, uid, requests) ==
  [ q \in Reqs |->
      IF q # r /\ requests[q].pc \notin {"idle", "done"} /\ requests[q].uid = uid
      THEN [ requests[q] EXCEPT !.stale = TRUE ]
      ELSE requests[q] ]

\* A handler behind verifyToken loads the user of the access token;
\* verifyMFA loads the user named in the body.
mfa_findById(r, seq, op, uid, token, backupCode, method, phoneNumber) ==
  /\ Arrive(r, seq)
  /\ uid \in UserIds
  /\ req' = [ req EXCEPT ![r] =
       [ IdleReq EXCEPT !.op = op, !.pc = "loaded", !.uid = uid, !.tok = token,
                        !.found = backupCode, !.method = method,
                        !.phone = phoneNumber, !.loaded = users[uid],
                        !.doc = users[uid], !.before = users[uid] ] ]
  /\ UNCHANGED <<users, tokens, now, production, rotated, rnd, sent, rateLimits, delivered>>

\* setupTOTP 299-321: a new secret is stored as pending.
setupTOTP(r) ==
  /\ req[r].pc = "loaded" /\ req[r].op = "setupTOTP"
  /\ rnd < MaxRandom
  /\ LET doc == [ req[r].doc EXCEPT !.mfaSecret = GenerateSecret ] IN
     /\ users' = [ users EXCEPT ![req[r].uid] = SaveDoc(@, req[r].loaded, doc) ]
     /\ req' = [ req EXCEPT ![r] =
          Respond([ @ EXCEPT !.doc = doc, !.loaded = doc ], 200, "TOTP setup") ]
  /\ rnd' = rnd + 1
  /\ UNCHANGED <<tokens, now, production, rotated, sent, rateLimits, delivered>>

\* setupSMS 428-446, setupEmail 540-559: a one-time code is stored as the
\* pending secret and sent to the phone or the mailbox.
SendCode(r, msg) ==
  /\ rnd < MaxRandom
  /\ LET doc == [ req[r].doc EXCEPT !.mfaSecret = VerificationCode ] IN
     /\ users' = [ users EXCEPT ![req[r].uid] = SaveDoc(@, req[r].loaded, doc) ]
     /\ req' = [ req EXCEPT ![r] =
          Respond([ @ EXCEPT !.doc = doc, !.loaded = doc ], 200, msg) ]
  /\ sent' = sent \cup {VerificationCode}
  /\ rnd' = rnd + 1
  /\ UNCHANGED <<tokens, now, production, rotated, rateLimits, delivered>>

setupSMS(r) ==
  /\ req[r].pc = "loaded" /\ req[r].op = "setupSMS"
  /\ SendCode(r, "Verification code sent to your phone")

setupEmail(r) ==
  /\ req[r].pc = "loaded" /\ req[r].op = "setupEmail"
  /\ SendCode(r, "Verification code sent to your email")

\* RejectCode that counts the failure as a failed login.
RejectCodeCounting(r, rq) ==
  /\ req' = [ req EXCEPT ![r] = Respond(rq, 400, "Invalid verification code") ]
  /\ users' = [ users EXCEPT ![rq.uid].failedLoginAttempts = @ + 1 ]
  /\ UNCHANGED rnd

\* verifyTOTP 361-366, verifySMS 481-487, verifyEmail 594-600, verifyMFA
\* 727-732: a wrong code is answered 400 and nothing is saved.
RejectCode(r, rq) ==
  /\ req' = [ req EXCEPT ![r] = Respond(rq, 400, "Invalid verification code") ]
  /\ UNCHANGED <<users, rnd>>

\* GenerateBackupCodes with one code missing.
EnabledDocShort(doc, method, secret) ==
  [ doc EXCEPT !.mfaEnabled = TRUE, !.mfaMethod = method, !.mfaSecret = secret,
               !.backupCodes = SubSeq(GenerateBackupCodes, 2, BackupCodeCount) ]

\* verifyTOTP 380-382, verifySMS 500-503, verifyEmail 613-616: the fields an
\* enrollment verify assigns before it saves.
EnabledDoc(doc, method, secret) ==
  [ doc EXCEPT !.mfaEnabled = TRUE, !.mfaMethod = method, !.mfaSecret = secret,
               !.backupCodes = GenerateBackupCodes ]

\* The body shared by verifyTOTP 346-393, verifySMS 471-514 and verifyEmail
\* 584-627: the pending secret must exist and the code must be valid; then
\* MFA is enabled with new backup codes and the given stored secret.
VerifyEnrollment(r, method, isValid, secret, msg, failMsg) ==
  /\ isValid => rnd < MaxRandom
  /\ LET rq == req[r] IN
     IF rq.doc.mfaSecret = NoSecret
     THEN /\ req' = [ req EXCEPT ![r] = Respond(rq, 400, "MFA setup not initiated") ]
          /\ UNCHANGED <<users, rnd>>
     ELSE IF ~isValid
          THEN RejectCode(r, rq)
          ELSE IF rq.stale
               THEN /\ req' = [ req EXCEPT ![r] = Respond(rq, 500, failMsg) ]
                    /\ UNCHANGED <<users, rnd>>
               ELSE LET doc == EnabledDoc(rq.doc, method, secret) IN
                    /\ users' = [ users EXCEPT ![rq.uid] = SaveDoc(@, rq.loaded, doc) ]
                    /\ req' = Bump(r, rq.uid, [ req EXCEPT ![r] =
                         Respond([ rq EXCEPT !.doc = doc, !.loaded = doc ], 200, msg) ])
                    /\ rnd' = rnd + 1
  /\ UNCHANGED <<tokens, now, production, rotated, sent, rateLimits, delivered>>

verifyTOTP(r) ==
  /\ req[r].pc = "loaded" /\ req[r].op = "verifyTOTP"
  /\ VerifyEnrollment(r, "totp",
                      AuthenticatorVerify(req[r].tok, req[r].doc.mfaSecret),
                      req[r].doc.mfaSecret, "MFA enabled successfully",
                      "Failed to verify TOTP")

\* verifySMS: the code is compared with the pending secret (481), and the
\* phone number replaces the secret (502).
verifySMS(r) ==
  /\ req[r].pc = "loaded" /\ req[r].op = "verifySMS"
  /\ VerifyEnrollment(r, "sms", req[r].tok = req[r].doc.mfaSecret,
                      req[r].phone, "SMS verification enabled successfully",
                      "Failed to verify SMS code")

\* verifyEmail: the code is compared with the pending secret (594), and the
\* marker "email" replaces the secret (615).
verifyEmail(r) ==
  /\ req[r].pc = "loaded" /\ req[r].op = "verifyEmail"
  /\ VerifyEnrollment(r, "email", req[r].tok = req[r].doc.mfaSecret,
                      EmailMarker, "Email verification enabled successfully",
                      "Failed to verify email code")

\* DisabledDoc that keeps the secret.
DisabledDocKeepSecret(doc) ==
  [ doc EXCEPT !.mfaEnabled = FALSE, !.mfaMethod = "none", !.backupCodes = <<>> ]

\* disableMFA 652-657: the fields disableMFA assigns before it saves.
DisabledDoc(doc) ==
  [ doc EXCEPT !.mfaEnabled = FALSE, !.mfaMethod = "none",
               !.mfaSecret = NoSecret, !.backupCodes = <<>> ]

\* disableMFA 641-664; the array is written only when it was not empty.
disableMFA(r) ==
  /\ req[r].pc = "loaded" /\ req[r].op = "disableMFA"
  /\ LET rq == req[r]
         doc == DisabledDoc(rq.doc)
         writesArray == rq.loaded.backupCodes # <<>> IN
     IF writesArray /\ rq.stale
     THEN /\ req' = [ req EXCEPT ![r] = Respond(rq, 500, "Failed to disable MFA") ]
          /\ UNCHANGED users
     ELSE /\ users' = [ users EXCEPT ![rq.uid] = SaveDoc(@, rq.loaded, doc) ]
          /\ LET answered == [ req EXCEPT ![r] =
                   Respond([ rq EXCEPT !.doc = doc, !.loaded = doc ],
                           200, "MFA disabled successfully") ] IN
             req' = IF writesArray THEN Bump(r, rq.uid, answered) ELSE answered
  /\ UNCHANGED <<tokens, now, production, rotated, rnd, sent, rateLimits, delivered>>

\* FindBackupCode that does not test the used flag.
FindBackupCodeAny(doc, backupCode) ==
  LET hits == { i \in 1..Len(doc.backupCodes) :
                  doc.backupCodes[i].code = backupCode } IN
  IF hits = {} THEN 0 ELSE CHOOSE i \in hits : \A j \in hits : i <= j

\* verifyMFA 694-696: the first stored backup code equal to the submitted
\* one and not yet used; 0 when there is none.
FindBackupCode(doc, backupCode) ==
  LET hits == { i \in 1..Len(doc.backupCodes) :
                  doc.backupCodes[i].code = backupCode /\ ~doc.backupCodes[i].used } IN
  IF hits = {} THEN 0 ELSE CHOOSE i \in hits : \A j \in hits : i <= j

\* ReplaceSecret that leaves the secret in place.
ReplaceSecretKeep(doc) == doc

\* verifyMFA 721: the secret is replaced after a successful check.
ReplaceSecret(doc) == [ doc EXCEPT !.mfaSecret = RandomHex ]

\* verifyMFA 683-739.  A matching backup code is marked used by a save of
\* that array element; a TOTP code is verified against the secret; an SMS
\* or email code is compared with the stored secret, which is then
\* replaced.  An absent token (0) equals no stored value.  The response
\* carries no token.
verifyMFA(r) ==
  /\ req[r].pc = "loaded" /\ req[r].op = "verifyMFA"
  /\ LET rq == req[r]
         i == FindBackupCode(rq.doc, rq.found)
         ok == [ req EXCEPT ![r] = Respond(rq, 200, "MFA verification successful") ] IN
     IF ~rq.doc.mfaEnabled
     THEN /\ req' = [ req EXCEPT ![r] = Respond(rq, 400, "MFA not enabled for this user") ]
          /\ UNCHANGED <<users, rnd>>
     ELSE IF rq.found # 0
     THEN IF i = 0
          THEN RejectCode(r, rq)
          ELSE IF rq.stale
               THEN /\ req' = [ req EXCEPT ![r] = Respond(rq, 500, "Failed to verify MFA") ]
                    /\ UNCHANGED <<users, rnd>>
               ELSE /\ users' = [ users EXCEPT ![rq.uid].backupCodes[i].used = TRUE ]
                    /\ req' = ok
                    /\ UNCHANGED rnd
     ELSE IF rq.method = "totp" /\ rq.doc.mfaMethod = "totp"
     THEN IF AuthenticatorVerify(rq.tok, rq.doc.mfaSecret)
          THEN /\ req' = ok
               /\ UNCHANGED <<users, rnd>>
          ELSE RejectCode(r, rq)
     ELSE IF rq.method \in {"sms", "email"} /\ rq.doc.mfaMethod = rq.method
             /\ rq.tok # 0 /\ rq.tok = rq.doc.mfaSecret
     THEN /\ rnd < MaxRandom
          /\ users' = [ users EXCEPT ![rq.uid] =
                          SaveDoc(@, rq.loaded, ReplaceSecret(rq.doc)) ]
          /\ req' = ok
          /\ rnd' = rnd + 1
     ELSE RejectCode(r, rq)
  /\ UNCHANGED <<tokens, now, production, rotated, sent, rateLimits, delivered>>

(* --------------------- the email and SMS senders ---------------------- *)
\* isRateLimited (emailService.js 94-108, smsService.js 77-91): the value it
\* returns, and the map after it has deleted an entry whose window is over.
isRateLimited(svc, to) ==
  LET limit == rateLimits[svc][to] IN
  /\ limit # NoLimit
  /\ ~(now > limit.resetTime)
  /\ limit.count >= MaxPerHour[svc]

isRateLimited_delete(svc, to) ==
  LET limit == rateLimits[svc][to] IN
  IF limit # NoLimit /\ now > limit.resetTime
  THEN [ rateLimits EXCEPT ![svc][to] = NoLimit ]
  ELSE rateLimits

\* updateRateLimit (emailService.js 114-137, smsService.js 97-120).
updateRateLimit(svc, to) ==
  LET limit == rateLimits[svc][to] IN
  IF limit = NoLimit \/ now > limit.resetTime
  THEN [ rateLimits EXCEPT ![svc][to] = [ count |-> 1, resetTime |-> now + OneHour ] ]
  ELSE [ rateLimits EXCEPT ![svc][to].count = @ + 1 ]

SendOps == {"sendEmail", "sendSMS"}

\* The number of messages the transports have delivered so far.
Delivered ==
  Cardinality(UNION { UNION { { <<svc, to, i>> : i \in DOMAIN delivered[svc][to] } :
                              to \in Recipients[svc] } : svc \in Services })

\* The part of sendEmail / sendSMS before its await, for a configured
\* service: the rate-limit test throws, or the message is handed to the
\* transport.
Send_isRateLimited(r, seq, svc, to, rq, msg) ==
  /\ Arrive(r, seq)
  /\ Delivered + Cardinality({ q \in InFlight : req[q].op \in SendOps }) < MaxSends
  /\ rateLimits' = isRateLimited_delete(svc, to)
  /\ req' = [ req EXCEPT ![r] =
       IF isRateLimited(svc, to) THEN Respond(rq, 0, msg)
       ELSE [ rq EXCEPT !.pc = "send" ] ]
  /\ UNCHANGED <<users, tokens, now, production, rotated, rnd, sent, delivered>>

\* The part after the await: the transport has delivered the message and
\* updateRateLimit counts it, or the transport has thrown and nothing is
\* counted.
Send_deliver(r, svc, to) ==
  /\ \/ /\ rateLimits' = updateRateLimit(svc, to)
        /\ delivered' = [ delivered EXCEPT ![svc][to] = Append(@, now) ]
        /\ req' = [ req EXCEPT ![r] =
             [ Respond(@, 0, "") EXCEPT !.out = Len(delivered[svc][to]) + 1 ] ]
     \/ /\ req' = [ req EXCEPT ![r] = Respond(@, 0, "transport error") ]
        /\ UNCHANGED <<rateLimits, delivered>>
  /\ UNCHANGED <<users, tokens, now, production, rotated, rnd, sent>>

\* EmailService.sendEmail, emailService.js 48-84.
sendEmail_isRateLimited(r, seq, to) ==
  Send_isRateLimited(r, seq, "email", to,
                     [ IdleReq EXCEPT !.op = "sendEmail", !.email = to ],
                     "Rate limit exceeded for this email address")

sendEmail_sendMail(r) ==
  /\ req[r].pc = "send" /\ req[r].op = "sendEmail"
  /\ Send_deliver(r, "email", req[r].email)

\* SMSService.sendSMS, smsService.js 35-70.
sendSMS_isRateLimited(r, seq, to) ==
  Send_isRateLimited(r, seq, "sms", to,
                     [ IdleReq EXCEPT !.op = "sendSMS", !.phone = to ],
                     "Rate limit exceeded for this phone number")

sendSMS_create(r) ==
  /\ req[r].pc = "send" /\ req[r].op = "sendSMS"
  /\ Send_deliver(r, "sms", req[r].phone)

\* The clock advances to the last instant of a rate-limit window or to the
\* first instant after it (now > resetTime, emailService.js 103 and 127).
TickWindow ==
  /\ \E svc \in Services : \E to \in Recipients[svc], e \in 0..1 :
       /\ rateLimits[svc][to] # NoLimit
       /\ rateLimits[svc][to].resetTime + e > now
       /\ rateLimits[svc][to].resetTime + e <= MaxSendNow
       /\ now' = rateLimits[svc][to].resetTime + e
  /\ UNCHANGED <<users, tokens, production, req, rotated, rnd, sent, rateLimits, delivered>>

(* ------------------------------ environment --------------------------- *)
\* The response has been delivered; the slot serves the next request.
Complete(r) ==
  /\ req[r].pc = "done"
  /\ req' = [ req EXCEPT ![r] = IdleReq ]
  /\ UNCHANGED <<users, tokens, now, production, rotated, rnd, sent, rateLimits, delivered>>

\* Instants at which a comparison of the code with the clock changes its
\* result: lockUntil > now (User.js 133), expiresAt < now (controller 214),
\* expiresAt > now (controller 1126).
Instants ==
  { users[u].lockUntil : u \in UserIds } \cup
  UNION { { tokens[t].expiresAt, tokens[t].expiresAt + 1 } :
          t \in { i \in TokenIds : tokens[i].present } }

\* The clock advances to the next such instant or to a later one, up to
\* the horizon.
Tick(horizon) ==
  /\ \E e \in Instants :
       /\ e > now
       /\ e <= horizon
       /\ now' = e
  /\ UNCHANGED <<users, tokens, production, req, rotated, rnd, sent, rateLimits, delivered>>

(* ----------------- sequential logins: the lockout policy --------------- *)
NextLock ==
  \/ \E p \in Passwords : registerUser_findOne(1, TRUE, MaxLockTokens, "alice", "a@x.com", p)
  \/ registerUser_save(1)
  \/ registerUser_generateTokens(1)
  \/ \E e \in Emails, p \in Passwords : loginUser_findOne(1, TRUE, MaxLockTokens, e, p)
  \/ comparePassword(1)
  \/ loginUser_generateTokens(1)
  \/ \E u \in 1..MaxUsers, p \in Passwords, n \in Passwords :
       changePassword_findById(1, TRUE, u, p, n)
  \/ changePassword_isPasswordReused(1)
  \/ changePassword_save(1)
  \/ changePassword_updateMany(1)
  \/ Complete(1)
  \/ Tick(LockHorizon)

InitLock == InitEnv({FALSE})

SpecLock == InitLock /\ [][NextLock]_vars

(* --------------- sequential requests: tokens and sessions -------------- *)
TokenArgs == 0..MaxTokens

NextRotate ==
  \/ registerUser_findOne(1, TRUE, MaxTokens, "alice", "a@x.com", 1)
  \/ registerUser_save(1)
  \/ registerUser_generateTokens(1)
  \/ loginUser_findOne(1, TRUE, MaxTokens, "a@x.com", 1)
  \/ comparePassword(1)
  \/ loginUser_generateTokens(1)
  \/ \E t \in TokenArgs : refreshTokenController_findOne(1, TRUE, MaxTokens, t)
  \/ refreshTokenController_generateTokens(1)
  \/ refreshTokenController_deleteOne(1)
  \/ \E t \in TokenArgs, ip \in IPs : refreshAccessToken_findOne(1, TRUE, MaxTokens, t, ip)
  \/ refreshAccessToken_updateMany(1)
  \/ refreshAccessToken_save(1)
  \/ refreshAccessToken_generateTokens(1)
  \/ \E t \in TokenArgs : logoutController(1, TRUE, t)
  \/ \E u \in 1..MaxUsers : revokeAllSessions(1, TRUE, u)
  \/ TtlExpire
  \/ Complete(1)
  \/ Tick(MaxNow)

InitRotate == InitEnv(BOOLEAN)

SpecRotate == InitRotate /\ [][NextRotate]_vars

(* ------------- two requests at a time: the refresh handlers ------------ *)
NextRotateRace ==
  \/ registerUser_findOne(1, TRUE, MaxTokens, "alice", "a@x.com", 1)
  \/ registerUser_save(1)
  \/ registerUser_generateTokens(1)
  \/ \E r \in Reqs, t \in TokenArgs :
       refreshTokenController_findOne(r, FALSE, MaxTokens, t)
  \/ \E r \in Reqs : refreshTokenController_generateTokens(r)
  \/ \E r \in Reqs : refreshTokenController_deleteOne(r)
  \/ \E r \in Reqs, t \in TokenArgs, ip \in IPs :
       refreshAccessToken_findOne(r, FALSE, MaxTokens, t, ip)
  \/ \E r \in Reqs : refreshAccessToken_updateMany(r)
  \/ \E r \in Reqs : refreshAccessToken_save(r)
  \/ \E r \in Reqs : refreshAccessToken_generateTokens(r)
  \/ \E r \in Reqs : Complete(r)

SpecRotateRace == InitRotate /\ [][NextRotateRace]_vars

(* ---------------- two requests at a time: failed logins ---------------- *)
NextLockRace ==
  \/ \E p \in Passwords :
       registerUser_findOne(1, TRUE, MaxTokens, "alice", "a@x.com", p)
  \/ registerUser_save(1)
  \/ registerUser_generateTokens(1)
  \/ \E r \in Reqs, e \in Emails, p \in Passwords :
       loginUser_findOne(r, FALSE, MaxTokens, e, p)
  \/ \E r \in Reqs : comparePassword(r)
  \/ \E r \in Reqs : loginUser_generateTokens(r)
  \/ \E r \in Reqs : Complete(r)

SpecLockRace == InitLock /\ [][NextLockRace]_vars

(* ------------------- sequential requests: MFA and login ---------------- *)
TotpInputs == { TotpCodeTag + i : i \in 1..MaxRandom }
BackupInputs == { BackupCodeTag + BackupCodeCount * i + 1 : i \in 0..MaxRandom }
CodeInputs == { OneTimeCodeTag + i : i \in 1..MaxRandom } \cup PhoneNumbers \cup {EmailMarker}

\* One user, one request at a time: login and every MFA route.
NextMfa ==
  \/ registerUser_findOne(1, TRUE, MaxTokens, "alice", "a@x.com", 1)
  \/ registerUser_save(1)
  \/ registerUser_generateTokens(1)
  \/ loginUser_findOne(1, TRUE, MaxTokens, "a@x.com", 1)
  \/ comparePassword(1)
  \/ loginUser_generateTokens(1)
  \/ \E u \in 1..MaxUsers, op \in {"setupTOTP", "setupEmail", "disableMFA"} :
       mfa_findById(1, TRUE, op, u, 0, 0, "", 0)
  \/ \E u \in 1..MaxUsers, p \in PhoneNumbers :
       mfa_findById(1, TRUE, "setupSMS", u, 0, 0, "", p)
  \/ \E u \in 1..MaxUsers, c \in TotpInputs :
       mfa_findById(1, TRUE, "verifyTOTP", u, c, 0, "", 0)
  \/ \E u \in 1..MaxUsers, c \in CodeInputs, p \in PhoneNumbers :
       mfa_findById(1, TRUE, "verifySMS", u, c, 0, "", p)
  \/ \E u \in 1..MaxUsers, c \in CodeInputs :
       mfa_findById(1, TRUE, "verifyEmail", u, c, 0, "", 0)
  \/ \E u \in 1..MaxUsers, c \in TotpInputs :
       mfa_findById(1, TRUE, "verifyMFA", u, c, 0, "totp", 0)
  \/ \E u \in 1..MaxUsers, c \in CodeInputs, m \in {"sms", "email"} :
       mfa_findById(1, TRUE, "verifyMFA", u, c, 0, m, 0)
  \/ \E u \in 1..MaxUsers, b \in BackupInputs :
       mfa_findById(1, TRUE, "verifyMFA", u, 0, b, "", 0)
  \/ setupTOTP(1)
  \/ setupSMS(1)
  \/ setupEmail(1)
  \/ verifyTOTP(1)
  \/ verifySMS(1)
  \/ verifyEmail(1)
  \/ disableMFA(1)
  \/ verifyMFA(1)
  \/ Complete(1)

SpecMfa == InitLock /\ [][NextMfa]_vars

\* One user, two overlapping requests on the TOTP and backup-code routes.
NextMfaRace ==
  \/ registerUser_findOne(1, TRUE, MaxTokens, "alice", "a@x.com", 1)
  \/ registerUser_save(1)
  \/ registerUser_generateTokens(1)
  \/ \E r \in Reqs, u \in 1..MaxUsers, op \in {"setupTOTP", "disableMFA"} :
       mfa_findById(r, FALSE, op, u, 0, 0, "", 0)
  \/ \E r \in Reqs, u \in 1..MaxUsers, c \in TotpInputs :
       mfa_findById(r, FALSE, "verifyTOTP", u, c, 0, "", 0)
  \/ \E r \in Reqs, u \in 1..MaxUsers, b \in BackupInputs :
       mfa_findById(r, FALSE, "verifyMFA", u, 0, b, "", 0)
  \/ \E r \in Reqs : setupTOTP(r)
  \/ \E r \in Reqs : verifyTOTP(r)
  \/ \E r \in Reqs : disableMFA(r)
  \/ \E r \in Reqs : verifyMFA(r)
  \/ \E r \in Reqs : Complete(r)

SpecMfaRace == InitLock /\ [][NextMfaRace]_vars

\* One user who knows the current password: logins and password changes
\* over enough passwords to fill the history and evict from it.
HistoryPasswords == 1..NumHistoryPasswords

NextHistory ==
  \/ registerUser_findOne(1, TRUE, MaxLockTokens, "alice", "a@x.com", 1)
  \/ registerUser_save(1)
  \/ registerUser_generateTokens(1)
  \/ \E u \in UserIds, p \in HistoryPasswords :
       /\ Argon2Verify(users[u].password, p)
       /\ loginUser_findOne(1, TRUE, MaxTokens, users[u].email, p)
  \/ loginUser_generateTokens(1)
  \/ \E u \in UserIds, p, n \in HistoryPasswords :
       /\ Argon2Verify(users[u].password, p)
       /\ changePassword_findById(1, TRUE, u, p, n)
  \/ comparePassword(1)
  \/ changePassword_isPasswordReused(1)
  \/ changePassword_save(1)
  \/ changePassword_updateMany(1)
  \/ Complete(1)

SpecHistory == InitLock /\ [][NextHistory]_vars

\* One user who registers with password 1 and changes it to 2, 3, ... in
\* turn; logins with any password in between.
NextChain ==
  \/ registerUser_findOne(1, TRUE, MaxLockTokens, "alice", "a@x.com", 1)
  \/ registerUser_save(1)
  \/ registerUser_generateTokens(1)
  \/ \E p \in HistoryPasswords : loginUser_findOne(1, TRUE, MaxLockTokens, "a@x.com", p)
  \/ loginUser_generateTokens(1)
  \/ \E u \in UserIds, p \in HistoryPasswords :
       /\ p + 1 \in HistoryPasswords
       /\ changePassword_findById(1, TRUE, u, p, p + 1)
  \/ comparePassword(1)
  \/ changePassword_isPasswordReused(1)
  \/ changePassword_save(1)
  \/ changePassword_updateMany(1)
  \/ Complete(1)

SpecChain == InitLock /\ [][NextChain]_vars

\* Two overlapping registrations with equal and different names and emails.
RegisterEmails == {"a@x.com", "A@X.COM", "b@x.com"}

NextRegisterRace ==
  \/ \E r \in Reqs, n \in Usernames, e \in RegisterEmails :
       registerUser_findOne(r, FALSE, MaxTokens, n, e, 1)
  \/ \E r \in Reqs : registerUser_save(r)
  \/ \E r \in Reqs : registerUser_generateTokens(r)
  \/ \E r \in Reqs : Complete(r)

SpecRegisterRace == InitLock /\ [][NextRegisterRace]_vars

\* Two users and their sessions, one request at a time.
NextSessions ==
  \/ \E a \in Accounts : registerUser_findOne(1, TRUE, MaxTokens, a[1], a[2], 1)
  \/ registerUser_save(1)
  \/ registerUser_generateTokens(1)
  \/ \E e \in Emails : loginUser_findOne(1, TRUE, MaxTokens, e, 1)
  \/ comparePassword(1)
  \/ loginUser_generateTokens(1)
  \/ \E u \in 1..MaxUsers, t \in TokenArgs : revokeSession(1, TRUE, u, t)
  \/ \E u \in 1..MaxUsers : revokeAllSessions(1, TRUE, u)
  \/ \E t \in TokenArgs : revokeRefreshToken(1, TRUE, t)
  \/ \E t \in TokenArgs : logoutController(1, TRUE, t)
  \/ Complete(1)

SpecSessions == InitLock /\ [][NextSessions]_vars

\* One request at a time, with database operations that may reject.
NextRotateFail ==
  \/ registerUser_findOne(1, TRUE, MaxTokens, "alice", "a@x.com", 1)
  \/ registerUser_save(1)
  \/ registerUser_generateTokens(1)
  \/ \E t \in TokenArgs : refreshTokenController_findOne(1, TRUE, MaxTokens, t)
  \/ refreshTokenController_generateTokens(1)
  \/ refreshTokenController_deleteOne(1)
  \/ \E t \in TokenArgs, ip \in IPs : refreshAccessToken_findOne(1, TRUE, MaxTokens, t, ip)
  \/ refreshAccessToken_updateMany(1)
  \/ refreshAccessToken_save(1)
  \/ refreshAccessToken_generateTokens(1)
  \/ catchError(1)
  \/ Complete(1)

SpecRotateFail == InitRotate /\ [][NextRotateFail]_vars

\* Two users, one request at a time: registration, login and password change.

NextChange ==
  \/ \E a \in Accounts : registerUser_findOne(1, TRUE, MaxTokens, a[1], a[2], 1)
  \/ registerUser_save(1)
  \/ registerUser_generateTokens(1)
  \/ \E e \in Emails, p \in Passwords : loginUser_findOne(1, TRUE, MaxTokens, e, p)
  \/ comparePassword(1)
  \/ loginUser_generateTokens(1)
  \/ \E u \in 1..MaxUsers, p \in Passwords, n \in Passwords :
       changePassword_findById(1, TRUE, u, p, n)
  \/ changePassword_isPasswordReused(1)
  \/ changePassword_save(1)
  \/ changePassword_updateMany(1)
  \/ Complete(1)

SpecChange == InitLock /\ [][NextChange]_vars

\* Two users, one request at a time.  Both register, in either order;
\* alice then uses login, password change, TOTP enrollment and disabling,
\* rotation with the theft test, and the session routes, while bob's record
\* and token are stored.  A wrong password is tried while the account has
\* fewer than MaxIndependentFailures failures, and a TOTP setup arrives
\* while fewer than MaxIndependentRandom random values have been drawn.
Actor == { u \in UserIds : users[u].username = "alice" }

IndependentTotpInputs == { TotpCodeTag + i : i \in 1..(MaxIndependentRandom + 1) }

NextIndependent ==
  \/ \E a \in Accounts : registerUser_findOne(1, TRUE, MaxTokens, a[1], a[2], 1)
  \/ registerUser_save(1)
  \/ registerUser_generateTokens(1)
  \/ \E u \in Actor, p \in Passwords :
       /\ Argon2Verify(users[u].password, p)
            \/ users[u].failedLoginAttempts < MaxIndependentFailures
       /\ loginUser_findOne(1, TRUE, MaxTokens, users[u].email, p)
  \/ comparePassword(1)
  \/ loginUser_generateTokens(1)
  \/ \E u \in Actor, p \in Passwords, n \in Passwords :
       /\ Argon2Verify(users[u].password, p)
            \/ users[u].failedLoginAttempts < MaxIndependentFailures
       /\ changePassword_findById(1, TRUE, u, p, n)
  \/ changePassword_isPasswordReused(1)
  \/ changePassword_save(1)
  \/ changePassword_updateMany(1)
  \/ \E u \in Actor :
       /\ rnd < MaxIndependentRandom
       /\ mfa_findById(1, TRUE, "setupTOTP", u, 0, 0, "", 0)
  \/ \E u \in Actor : mfa_findById(1, TRUE, "disableMFA", u, 0, 0, "", 0)
  \/ \E u \in Actor, c \in IndependentTotpInputs :
       mfa_findById(1, TRUE, "verifyTOTP", u, c, 0, "", 0)
  \/ setupTOTP(1)
  \/ verifyTOTP(1)
  \/ disableMFA(1)
  \/ \E t \in TokenArgs, ip \in IPs :
       /\ Stored(t) => tokens[t].user \in Actor
       /\ refreshAccessToken_findOne(1, TRUE, MaxTokens + 1, t, ip)
  \/ refreshAccessToken_updateMany(1)
  \/ refreshAccessToken_save(1)
  \/ refreshAccessToken_generateTokens(1)
  \/ \E u \in Actor, t \in TokenArgs : revokeSession(1, TRUE, u, t)
  \/ \E u \in Actor : revokeAllSessions(1, TRUE, u)
  \/ Complete(1)

\* NODE_ENV is "production": the theft test of refreshAccessToken is armed.
InitProduction == InitEnv({TRUE})

SpecIndependent == InitProduction /\ [][NextIndependent]_vars

\* One user, two requests at a time: a password change next to refreshes.
\* At most one password change is being served, and it arrives with the
\* access token of a registration that has been answered.
NextChangeRace ==
  \/ registerUser_findOne(1, TRUE, MaxTokens, "alice", "a@x.com", 1)
  \/ registerUser_save(1)
  \/ registerUser_generateTokens(1)
  \/ \E r \in Reqs, u \in 1..MaxUsers, p \in Passwords, n \in Passwords :
       /\ \A q \in InFlight : req[q].op \notin {"changePassword", "register"}
       /\ changePassword_findById(r, FALSE, u, p, n)
  \/ \E r \in Reqs : comparePassword(r)
  \/ \E r \in Reqs : changePassword_isPasswordReused(r)
  \/ \E r \in Reqs : changePassword_save(r)
  \/ \E r \in Reqs : changePassword_updateMany(r)
  \/ \E r \in Reqs, t \in TokenArgs, ip \in IPs :
       refreshAccessToken_findOne(r, FALSE, MaxTokens, t, ip)
  \/ \E r \in Reqs : refreshAccessToken_updateMany(r)
  \/ \E r \in Reqs : refreshAccessToken_save(r)
  \/ \E r \in Reqs : refreshAccessToken_generateTokens(r)
  \/ \E r \in Reqs : Complete(r)

SpecChangeRace == InitRotate /\ [][NextChangeRace]_vars

\* One user who knows the password, two requests at a time: request 1
\* takes every other route that issues, revokes or deletes a refresh
\* token, request 2 is a refresh.
NextRevoke ==
  \/ registerUser_findOne(1, TRUE, MaxTokens, "alice", "a@x.com", 1)
  \/ registerUser_save(1)
  \/ registerUser_generateTokens(1)
  \/ loginUser_findOne(1, FALSE, MaxTokens, "a@x.com", 1)
  \/ comparePassword(1)
  \/ loginUser_generateTokens(1)
  \/ \E u \in UserIds, p \in Passwords, n \in Passwords :
       /\ Argon2Verify(users[u].password, p)
       /\ changePassword_findById(1, FALSE, u, p, n)
  \/ changePassword_isPasswordReused(1)
  \/ changePassword_save(1)
  \/ changePassword_updateMany(1)
  \/ \E t \in TokenArgs, ip \in IPs :
       refreshAccessToken_findOne(2, FALSE, MaxTokens, t, ip)
  \/ refreshAccessToken_updateMany(2)
  \/ refreshAccessToken_save(2)
  \/ refreshAccessToken_generateTokens(2)
  \/ \E u \in 1..MaxUsers, t \in TokenArgs : revokeSession(1, FALSE, u, t)
  \/ \E u \in 1..MaxUsers : revokeAllSessions(1, FALSE, u)
  \/ \E t \in TokenArgs : revokeRefreshToken(1, FALSE, t)
  \/ \E t \in TokenArgs : logoutController(1, FALSE, t)
  \/ \E r \in Reqs : Complete(r)

SpecRevoke == InitProduction /\ [][NextRevoke]_vars

\* The two senders, two sends at a time.
NextSend ==
  \/ \E r \in Reqs, to \in Recipients.email : sendEmail_isRateLimited(r, FALSE, to)
  \/ \E r \in Reqs : sendEmail_sendMail(r)
  \/ \E r \in Reqs, to \in Recipients.sms : sendSMS_isRateLimited(r, FALSE, to)
  \/ \E r \in Reqs : sendSMS_create(r)
  \/ \E r \in Reqs : Complete(r)
  \/ TickWindow

SpecSend == InitLock /\ [][NextSend]_vars

(* ------------------------------- claims ------------------------------- *)
RefreshOps == {"refreshTokenController", "refreshAccessToken"}

\* C1: with requests served one after the other, the first rotation of an
\* unrevoked token mints a new pair (unless theft is suspected or the token
\* expires meanwhile), and every later rotation of the same token is
\* rejected and mints nothing.
C1_SingleUse ==
  \A r \in Reqs :
    (req[r].pc = "done" /\ req[r].op \in RefreshOps)
      => /\ ( /\ req[r].valid /\ ~req[r].reuse
              /\ ~(production /\ req[r].mismatch)
              /\ tokens[req[r].tok].expiresAt > now )
               => (req[r].status = 200 /\ req[r].out # 0)
         /\ req[r].reuse => (req[r].status # 200 /\ req[r].out = 0)

\* C2: of two overlapping refresh requests that present the same valid
\* token, exactly one has minted a new refresh token when both are done.
C2_OneWinner ==
  \A r1, r2 \in Reqs :
    ( /\ r1 # r2
      /\ req[r1].pc = "done" /\ req[r2].pc = "done"
      /\ req[r1].op \in RefreshOps /\ req[r2].op \in RefreshOps
      /\ req[r1].tok = req[r2].tok
      /\ req[r1].overlap /\ req[r2].overlap
      /\ req[r1].valid /\ req[r2].valid )
      => Cardinality({ r \in {r1, r2} : req[r].out # 0 }) = 1

\* C3: a refresh request has minted a token only if the token it presented
\* was stored, unrevoked and unexpired when it was looked up.
C3_OnlyLiveTokensMint ==
  \A r \in Reqs :
    (req[r].op \in RefreshOps /\ req[r].out # 0) => req[r].valid

\* C4: in production, a rotation that presents a valid token from an ip
\* other than the one recorded at issuance is answered with the security
\* alert, mints nothing and leaves every token of the owner revoked.
C4_TheftDetected ==
  \A r \in Reqs :
    ( /\ production
      /\ req[r].pc = "done" /\ req[r].op = "refreshAccessToken"
      /\ req[r].mismatch )
      => /\ req[r].status = 401
         /\ req[r].msg = "Security alert: Please login again"
         /\ req[r].out = 0
         /\ \A t \in TokenIds :
              (tokens[t].present /\ tokens[t].user = req[r].uid) => tokens[t].isRevoked
\* The message of the error comparePassword throws for a locked account
\* (User.js 135-137), which carries the remaining minutes.
LockedMessage == "Account is locked"

\* The lock duration in minutes as the lockout policy states it.
LockDuration(n) ==
  IF n < 5 THEN 0 ELSE IF n < 10 THEN Pow2(n - 5) ELSE 24 * 60

\* C5: a login with the correct password for a user whose mfaEnabled is
\* true is answered with the MFA challenge and mints no token.
C5_MfaGatesLogin ==
  \A r \in Reqs :
    (req[r].pc = "done" /\ req[r].op = "login" /\ req[r].before.mfaEnabled
       /\ Argon2Verify(req[r].before.password, req[r].pw))
      => (req[r].msg = "MFA required" /\ req[r].out = 0)

\* C6: a login attempt on a locked account mints nothing and is answered
\* with the lock result that reveals the remaining lock duration, for a
\* correct and for a wrong password alike.
C6_LockedIsTyped ==
  \A r \in Reqs :
    (req[r].pc = "done" /\ req[r].op = "login" /\ req[r].locked)
      => (req[r].out = 0 /\ req[r].msg = LockedMessage)

\* C7: a failed password verification on an unlocked account adds exactly 1
\* to failedLoginAttempts and sets lockUntil to now + lockDuration(counter)
\* when that duration is positive, leaving lockUntil as it is otherwise;
\* both are written by the same save.
C7_FailedAttemptLocks ==
  [][ \A r \in Reqs :
        (req[r].pc = "verify" /\ req'[r].pc = "done" /\ req'[r].status = 400)
          => LET u == req[r].uid
                 n == users[u].failedLoginAttempts + 1 IN
             /\ users'[u].failedLoginAttempts = n
             /\ users'[u].lockUntil = IF LockDuration(n) > 0
                                      THEN now + LockDuration(n)
                                      ELSE users[u].lockUntil ]_vars

\* C7 witness: the tenth failure has just locked the account for 24 hours.
C7_Witness ==
  \E r \in Reqs :
    /\ req[r].pc = "done" /\ req[r].status = 400 /\ req[r].hashed
    /\ users[req[r].uid].failedLoginAttempts = 10
    /\ users[req[r].uid].lockUntil = now + 24 * 60

\* C8: after a successful password verification, and after a successful
\* password change, failedLoginAttempts is 0 and lockUntil is null.
C8_SuccessResets ==
  [][ \A r \in Reqs :
        ( \/ req[r].pc = "verify" /\ req'[r].pc = "match"
          \/ req[r].pc = "presave" /\ req'[r].pc = "revoke" )
          => /\ users'[req[r].uid].failedLoginAttempts = 0
             /\ users'[req[r].uid].lockUntil = NoDate ]_vars

\* C8 witness: a login succeeded after one to four failures, and the
\* counter is back to 0.
C8_Witness ==
  \E r \in Reqs :
    /\ req[r].pc = "match" /\ req[r].op = "login"
    /\ req[r].before.failedLoginAttempts \in 1..4
    /\ users[req[r].uid].failedLoginAttempts = 0

\* C9: a request rejected by the lock test has not invoked the password
\* hasher and has left failedLoginAttempts and lockUntil as they were.
C9_LockedFailsFast ==
  \A r \in Reqs :
    req[r].locked
      => /\ ~req[r].hashed
         /\ users[req[r].uid].failedLoginAttempts = req[r].before.failedLoginAttempts
         /\ users[req[r].uid].lockUntil = req[r].before.lockUntil

\* C9 witness: a login with the correct password was rejected by the lock.
C9_Witness ==
  \E r \in Reqs :
    /\ req[r].pc = "done" /\ req[r].op = "login" /\ req[r].locked
    /\ Argon2Verify(req[r].before.password, req[r].pw)

\* C10: when two failed logins for the same user overlap, both having
\* loaded the same counter value, the stored counter has grown by 2 once
\* both are done, and the account is locked if that value calls for it.
C10_NoLostIncrement ==
  \A r1, r2 \in Reqs :
    ( /\ r1 # r2
      /\ req[r1].pc = "done" /\ req[r2].pc = "done"
      /\ req[r1].op = "login" /\ req[r2].op = "login"
      /\ req[r1].msg = "Invalid password" /\ req[r2].msg = "Invalid password"
      /\ req[r1].uid = req[r2].uid
      /\ req[r1].overlap /\ req[r2].overlap
      /\ req[r1].before.failedLoginAttempts = req[r2].before.failedLoginAttempts )
      => LET u == req[r1].uid
             n == req[r1].before.failedLoginAttempts + 2 IN
         /\ users[u].failedLoginAttempts = n
         /\ LockDuration(n) > 0 => users[u].lockUntil # NoDate

\* C11: when changePassword answers 200 for a user, every stored refresh
\* token of that user is revoked, and the token documents of every other
\* user are exactly as they were.
C11_PasswordChangeRevokes ==
  [][ \A r \in Reqs :
        ( req[r].op = "changePassword" /\ req[r].pc = "revoke"
          /\ req'[r].pc = "done" /\ req'[r].status = 200 )
        => /\ Len(tokens') = Len(tokens)
           /\ \A t \in TokenIds :
                IF tokens[t].user = req[r].uid
                THEN tokens[t].present => tokens'[t].isRevoked
                ELSE tokens'[t] = tokens[t] ]_vars

C11_Witness ==
  \E r \in Reqs, t1, t2 \in TokenIds :
    /\ req[r].pc = "done" /\ req[r].op = "changePassword" /\ req[r].status = 200
    /\ tokens[t1].user = req[r].uid /\ tokens[t1].revokedReason = "Password changed"
    /\ tokens[t2].user # req[r].uid /\ tokens[t2].present /\ ~tokens[t2].isRevoked

\* A refresh token a client can still rotate: stored, unrevoked, unexpired.
Usable(t) == Stored(t) /\ ~tokens[t].isRevoked /\ tokens[t].expiresAt > now

\* C12: when a rotation of a valid token has ended, with a success or with a
\* failure part-way, either the old token is no longer usable and its
\* replacement is stored, or the old token is still usable and no
\* replacement exists.
C12_RotationAtomic ==
  \A r \in Reqs :
    ( /\ req[r].pc = "done" /\ req[r].op \in RefreshOps
      /\ req[r].valid /\ ~(production /\ req[r].mismatch) )
      => \/ ~Usable(req[r].tok) /\ Stored(req[r].out) /\ Len(tokens) = req[r].out
         \/ Usable(req[r].tok) /\ req[r].out = 0 /\ req[r].status # 200

MfaVerifyOps == {"verifyTOTP", "verifySMS", "verifyEmail"}

\* The backup codes of a document that are marked used / not marked used.
UsedCodes(doc) ==
  { doc.backupCodes[i].code : i \in { j \in 1..Len(doc.backupCodes) : doc.backupCodes[j].used } }
UnusedCodes(doc) ==
  { doc.backupCodes[i].code : i \in { j \in 1..Len(doc.backupCodes) : ~doc.backupCodes[j].used } }

\* C13: with requests served one after the other, a verifyMFA with a backup
\* code succeeds only if the code is stored unused, and it leaves the code
\* marked used; a code that is marked used never becomes unused again.
C13_BackupCodeOnce ==
  [][ /\ \A r \in Reqs :
          ( req[r].op = "verifyMFA" /\ req[r].pc = "loaded" /\ req[r].found # 0
            /\ req'[r].pc = "done" /\ req'[r].status = 200 )
          => /\ req[r].found \in UnusedCodes(users[req[r].uid])
             /\ req[r].found \in UsedCodes(users'[req[r].uid])
      /\ \A u \in UserIds :
          UsedCodes(users[u]) \cap UnusedCodes(users'[u]) = {} ]_vars

C13_Witness ==
  \E r \in Reqs :
    /\ req[r].pc = "done" /\ req[r].op = "verifyMFA" /\ req[r].found # 0
    /\ req[r].status = 400 /\ req[r].msg = "Invalid verification code"
    /\ req[r].found \in UsedCodes(users[req[r].uid])

\* C14: of two verifyMFA requests that were both served while the same
\* backup code was stored unused, at most one is answered with a success.
C14_OneBackupWinner ==
  \A r1, r2 \in Reqs :
    ( /\ r1 # r2
      /\ req[r1].pc = "done" /\ req[r2].pc = "done"
      /\ req[r1].op = "verifyMFA" /\ req[r2].op = "verifyMFA"
      /\ req[r1].uid = req[r2].uid
      /\ req[r1].found # 0 /\ req[r1].found = req[r2].found
      /\ req[r1].found \in UnusedCodes(req[r1].before)
      /\ req[r2].found \in UnusedCodes(req[r2].before) )
      => ~(req[r1].status = 200 /\ req[r2].status = 200)

\* C15: a verifyMFA by SMS or email code (no backup code) succeeds only if
\* the submitted code is a one-time code the service has sent to the user.
C15_LoginCodeWasSent ==
  \A r \in Reqs :
    ( /\ req[r].pc = "done" /\ req[r].op = "verifyMFA" /\ req[r].found = 0
      /\ req[r].method \in {"sms", "email"} /\ req[r].status = 200 )
      => req[r].tok \in sent

\* C16: a verifyMFA by SMS or email code that succeeds replaces the stored
\* secret by a new random value, different from the old secret, from the
\* submitted code and from every code sent, so the same code is rejected
\* when it is submitted again; one that fails leaves the secret unchanged.
C16_LoginCodeSingleUse ==
  [][ \A r \in Reqs :
        ( /\ req[r].op = "verifyMFA" /\ req[r].pc = "loaded" /\ req[r].found = 0
          /\ req[r].method \in {"sms", "email"} /\ req'[r].pc = "done" )
        => LET old == users[req[r].uid].mfaSecret
               new == users'[req[r].uid].mfaSecret IN
           IF req'[r].status = 200
           THEN /\ new \notin {old, req[r].tok, NoSecret}
                /\ new \notin sent
                /\ new > RandomSecretTag
           ELSE new = old ]_vars

C16_Witness ==
  \E r \in Reqs :
    /\ req[r].pc = "done" /\ req[r].op = "verifyMFA" /\ req[r].found = 0
    /\ req[r].method = "sms" /\ req[r].tok \in PhoneNumbers
    /\ req[r].status = 400
    /\ users[req[r].uid].mfaMethod = "sms"
    /\ users[req[r].uid].mfaSecret > RandomSecretTag

\* C17: in every stored user document, mfaEnabled implies that mfaMethod is
\* not "none" and that mfaSecret is set.
C17_EnabledHasMethodAndSecret ==
  \A u \in UserIds :
    users[u].mfaEnabled => (users[u].mfaMethod # "none" /\ users[u].mfaSecret # NoSecret)

MfaSetupOps == {"setupTOTP", "setupSMS", "setupEmail"}

C19_EnrollmentEnables ==
  [][ \A r \in Reqs :
        ( req[r].op \in MfaVerifyOps /\ req[r].pc = "loaded"
          /\ req'[r].pc = "done" /\ req'[r].status = 200 )
        => LET old == users[req[r].uid]
               new == users'[req[r].uid] IN
           /\ new.mfaEnabled
           /\ new.mfaMethod = CASE req[r].op = "verifyTOTP" -> "totp"
                                 [] req[r].op = "verifySMS" -> "sms"
                                 [] OTHER -> "email"
           /\ Len(new.backupCodes) = BackupCodeCount
           /\ Cardinality(UnusedCodes(new)) = BackupCodeCount
           /\ UsedCodes(new) = {}
           /\ UnusedCodes(new) \cap (UsedCodes(old) \cup UnusedCodes(old)) = {} ]_vars

C19_Witness ==
  \E r \in Reqs :
    /\ req[r].pc = "done" /\ req[r].op = "verifySMS" /\ req[r].status = 200
    /\ UsedCodes(req[r].before) # {}
    /\ users[req[r].uid].mfaMethod = "sms"
    /\ UsedCodes(users[req[r].uid]) = {}

\* C20: an MFA code check that fails, at an enrollment verify or at
\* verifyMFA, leaves the stored user document exactly as it was.
C20_FailedCheckChangesNothing ==
  [][ \A r \in Reqs :
        ( req[r].op \in MfaVerifyOps \cup {"verifyMFA"} /\ req[r].pc = "loaded"
          /\ req'[r].pc = "done" /\ req'[r].status = 400 )
        => users' = users ]_vars

C20_Witness ==
  \E r \in Reqs :
    /\ req[r].pc = "done" /\ req[r].op = "verifyMFA" /\ req[r].status = 400
    /\ req[r].msg = "Invalid verification code"
    /\ req[r].before.mfaEnabled /\ UsedCodes(req[r].before) # {}
    /\ users[req[r].uid] = req[r].before

\* The hashes a password history holds.
HistoryHashes(doc) == { doc.passwordHistory[i] : i \in 1..Len(doc.passwordHistory) }

\* C21: a changePassword with the correct current password and a new
\* password whose hash is among the (at most five) previous passwords of
\* the history is answered with the reuse rejection, and the stored
\* password and history are what they were.
C21_ReuseRejected ==
  \A r \in Reqs :
    ( /\ req[r].pc = "done" /\ req[r].op = "changePassword"
      /\ Argon2Verify(req[r].before.password, req[r].pw)
      /\ Argon2Hash(req[r].newpw) \in HistoryHashes(req[r].before) )
      => /\ req[r].status = 400 /\ req[r].msg = ReusedMessage
         /\ users[req[r].uid].password = req[r].before.password
         /\ users[req[r].uid].passwordHistory = req[r].before.passwordHistory

C21_Witness ==
  \E r \in Reqs :
    /\ req[r].pc = "done" /\ req[r].op = "changePassword"
    /\ req[r].msg = ReusedMessage
    /\ Len(req[r].before.passwordHistory) = HistoryLimit
    /\ req[r].before.passwordHistory[1] = Argon2Hash(req[r].newpw)
    /\ req[r].before.passwordHistory[1] # Argon2Hash(1)

\* C22: passwordHistory never has more than five entries; whenever the
\* stored password is replaced, the history becomes the old history with
\* the replaced hash appended, cut to its last five entries (the oldest
\* entry is the one dropped); otherwise the history does not change.
C22_HistoryBounded ==
  /\ [](\A u \in UserIds : Len(users[u].passwordHistory) <= HistoryLimit)
  /\ [][ \A u \in UserIds :
           LET old == users[u].passwordHistory
               all == Append(old, users[u].password) IN
           users'[u].passwordHistory =
             IF users'[u].password = users[u].password THEN old
             ELSE IF Len(all) > HistoryLimit
                  THEN [ i \in 1..HistoryLimit |-> all[i + Len(all) - HistoryLimit] ]
                  ELSE all ]_vars

C22_Witness ==
  \E u \in UserIds :
    /\ Len(users[u].passwordHistory) = HistoryLimit
    /\ Argon2Hash(1) \notin HistoryHashes(users[u])
    /\ users[u].password # Argon2Hash(1)

\* C23 as stated: once the sixth distinct password is set, the hash of the
\* first password is no longer in passwordHistory.
C23_SixthEvictsFirst ==
  \A u \in UserIds :
    users[u].password = Argon2Hash(HistoryLimit + 1)
      => Argon2Hash(1) \notin HistoryHashes(users[u])

\* C23 as amended: while the sixth distinct password is set the history
\* holds the five passwords before it, the first among them; once the
\* seventh is set the hash of the first password is no longer in it.
C23_SeventhEvictsFirst ==
  \A u \in UserIds :
    /\ users[u].password = Argon2Hash(HistoryLimit + 1)
         => users[u].passwordHistory = [ i \in 1..HistoryLimit |-> Argon2Hash(i) ]
    /\ users[u].password = Argon2Hash(HistoryLimit + 2)
         => /\ Argon2Hash(1) \notin HistoryHashes(users[u])
            /\ users[u].passwordHistory = [ i \in 1..HistoryLimit |-> Argon2Hash(i + 1) ]

C23_Witness ==
  \E u \in UserIds : users[u].password = Argon2Hash(HistoryLimit + 2)

SameMessage == "New password must be different from current password"

\* C24: while a changePassword whose new password equals its (correct)
\* current password is being served, the stored password, the history and
\* every refresh token stay as they are, and its answer is the 400
\* rejection that names the same-as-current password.
C24_SameAsCurrentRejected ==
  [][ \A r \in Reqs :
        ( /\ req'[r].op = "changePassword" /\ req'[r].pw = req'[r].newpw
          /\ Argon2Verify(users[req'[r].uid].password, req'[r].pw) )
        => /\ users'[req'[r].uid].password = users[req'[r].uid].password
           /\ users'[req'[r].uid].passwordHistory = users[req'[r].uid].passwordHistory
           /\ tokens' = tokens
           /\ req'[r].pc = "done"
           /\ req'[r].status = 400 /\ req'[r].msg = SameMessage ]_vars

C24_Witness ==
  \E r \in Reqs, t \in TokenIds :
    /\ req[r].pc = "done" /\ req[r].op = "changePassword"
    /\ req[r].pw = req[r].newpw
    /\ Argon2Verify(users[req[r].uid].password, req[r].pw)
    /\ req[r].status = 400 /\ req[r].msg = SameMessage
    /\ users[req[r].uid].passwordHistory # <<>>
    /\ tokens[t].user = req[r].uid /\ tokens[t].present /\ ~tokens[t].isRevoked

\* C25: a registration that has ended while another user record has its
\* username or (case-insensitively) its email was answered "User already
\* exists" and has created no user and no token; and no two user records
\* share a username or an email.
C25_DuplicateRejected ==
  /\ \A r \in Reqs :
       ( /\ req[r].pc = "done" /\ req[r].op = "register"
         /\ \E u \in UserIds \ {req[r].uid} :
               \/ users[u].username = req[r].username
               \/ users[u].email = Lowercase(req[r].email) )
       => /\ req[r].status = 400 /\ req[r].msg = "User already exists"
          /\ req[r].uid = 0 /\ req[r].out = 0
  /\ \A u1, u2 \in UserIds :
       u1 # u2 => /\ users[u1].username # users[u2].username
                  /\ users[u1].email # users[u2].email

\* C26: a revokeSession by a user for a stored token of another user is
\* answered 404 and leaves every token document as it was; for a token of
\* the user that is not yet revoked it revokes that token and no other.
C26_RevokeOwnOnly ==
  [][ \A r \in Reqs :
        ( req[r].pc = "idle" /\ req'[r].pc = "done" /\ req'[r].op = "revokeSession"
          /\ Stored(req'[r].tok) )
        => LET t == req'[r].tok IN
           IF tokens[t].user # req'[r].uid
           THEN req'[r].status = 404 /\ tokens' = tokens
           ELSE /\ \A o \in TokenIds \ {t} : tokens'[o] = tokens[o]
                /\ tokens'[t].isRevoked
                /\ req'[r].status = IF tokens[t].isRevoked THEN 404 ELSE 200 ]_vars

C26_Witness ==
  \E r \in Reqs :
    /\ req[r].pc = "done" /\ req[r].op = "revokeSession" /\ req[r].status = 404
    /\ Stored(req[r].tok)
    /\ tokens[req[r].tok].user # req[r].uid
    /\ ~tokens[req[r].tok].isRevoked
    /\ \E t \in TokenIds : tokens[t].revokedReason = "Manually revoked by user"

\* C27: a stored refresh-token document is removed only once its expiresAt
\* has passed, and the only change ever made to one is setting isRevoked
\* with a reason.
C27_TokensOnlyRevoked ==
  [][ \A t \in TokenIds :
        /\ (tokens[t].present /\ ~tokens'[t].present) => tokens[t].expiresAt <= now
        /\ (tokens'[t].present /\ tokens'[t] # tokens[t])
             => /\ tokens'[t].isRevoked /\ tokens'[t].revokedReason # ""
                /\ tokens'[t] = [ tokens[t] EXCEPT !.isRevoked = TRUE,
                                     !.revokedReason = tokens'[t].revokedReason ] ]_vars

\* C28: a login for an email no user has and a login with a wrong password
\* for an unlocked user are answered with the same status and message.
C28_NoEnumeration ==
  \A r1, r2 \in Reqs :
    ( /\ req[r1].pc = "done" /\ req[r1].op = "login" /\ req[r1].uid = 0
      /\ req[r2].pc = "done" /\ req[r2].op = "login" /\ req[r2].uid # 0
      /\ ~req[r2].locked
      /\ ~Argon2Verify(req[r2].before.password, req[r2].pw) )
      => (req[r1].status = req[r2].status /\ req[r1].msg = req[r2].msg)

\* C29: in production, a refresh rejected because the ip differs from the
\* recorded one and a refresh rejected because the token is not valid are
\* answered with the same status and message.
C29_TheftLooksExpired ==
  \A r1, r2 \in Reqs :
    ( /\ req[r1].pc = "done" /\ req[r1].op = "refreshAccessToken"
      /\ production /\ req[r1].mismatch /\ req[r1].status # 200
      /\ IpMismatch([ ip |-> tokens[req[r1].tok].ip ], req[r1].ip)
      /\ req[r2].pc = "done" /\ req[r2].op = "refreshAccessToken"
      /\ ~req[r2].valid )
      => (req[r1].status = req[r2].status /\ req[r1].msg = req[r2].msg)

\* C30: the password a registration stores is the hash of the submitted
\* plaintext and differs from it; and a verification of the right plaintext
\* for a user who is not locked and has failedLoginAttempts = 0 matches and
\* writes nothing to the user document.
C30_HashedAndQuietMatch ==
  /\ [](\A r \in Reqs :
         (req[r].pc = "done" /\ req[r].op = "register" /\ req[r].status = 201)
           => /\ users[req[r].uid].password = Argon2Hash(req[r].pw)
              /\ users[req[r].uid].password # req[r].pw)
  /\ [][ \A r \in Reqs :
           ( /\ req[r].pc = "verify" /\ req'[r].pc # "verify"
             /\ Argon2Verify(users[req[r].uid].password, req[r].pw)
             /\ users[req[r].uid].failedLoginAttempts = 0
             /\ ~IsLocked(users[req[r].uid], now) )
           => (req'[r].pc = "match" /\ users' = users) ]_vars

C30_Witness ==
  \E r \in Reqs :
    /\ req[r].pc = "done" /\ req[r].op = "login" /\ req[r].status = 200
    /\ req[r].before.failedLoginAttempts = 0
    /\ req[r].before.passwordHistory = <<>>
    /\ users[req[r].uid] = req[r].before
    /\ users[req[r].uid].password # req[r].pw

\* C31: an operation performed for one user leaves every other user's
\* record and every refresh token owned by another user unchanged.  The
\* user of a step is the user of the request that takes it: the user the
\* credentials or the access token name, or the owner of the presented
\* refresh token.
C31_UsersIndependent ==
  [][ \A r \in Reqs :
        req'[r].pc # req[r].pc =>
          LET a == IF req[r].pc = "idle" THEN req'[r].uid ELSE req[r].uid IN
          \A b \in UserIds :
             b # a =>
               /\ users'[b] = users[b]
               /\ \A t \in TokenIds :
                    tokens[t].user = b => tokens'[t] = tokens[t] ]_vars

\* The theft test has revoked every token of one user while another user
\* holds a token that is stored and not revoked.
C31_Witness ==
  \E r \in Reqs :
     /\ req[r].pc = "done" /\ req[r].op = "refreshAccessToken"
     /\ req[r].msg = "Security alert: Please login again"
     /\ \E t \in TokenIds :
          tokens[t].user = req[r].uid /\ tokens[t].isRevoked
     /\ \E t \in TokenIds :
          /\ tokens[t].present /\ tokens[t].user # req[r].uid
          /\ ~tokens[t].isRevoked

\* C32: once changePassword has answered 200 and no request is being
\* served, the user has no stored token that is not revoked: no refresh
\* that overlapped the password change has kept a session alive.  (Nothing
\* but registration and refresh issues tokens here.)
C32_ChangeEndsSessions ==
  \A c \in Reqs :
     ( /\ req[c].pc = "done" /\ req[c].op = "changePassword"
       /\ req[c].status = 200
       /\ InFlight = {} )
       => \A t \in TokenIds :
            (tokens[t].present /\ tokens[t].user = req[c].uid) => tokens[t].isRevoked

\* C33: revocation is monotone.  A token record whose isRevoked is true
\* keeps it true in every step, and from then on getActiveSessions never
\* lists it for any user.
C33_RevocationMonotone ==
  [][ \A t \in TokenIds :
        tokens[t].isRevoked =>
          /\ tokens'[t].isRevoked
          /\ \A u \in UserIds : t \notin getActiveSessions(u)'
          /\ \A u \in UserIds : t \notin getActiveSessions(u) ]_vars

\* A refresh found its token unrevoked, the token was then revoked by
\* another request, and the refresh has saved it and issued its successor:
\* the revoked token is stored, and the user has an active session.
C33_Witness ==
  \E r \in Reqs :
     /\ req[r].pc = "done" /\ req[r].op = "refreshAccessToken"
     /\ req[r].status = 200
     /\ tokens[req[r].found].present /\ tokens[req[r].found].isRevoked
     /\ tokens[req[r].found].revokedReason = "Used for token refresh"
     /\ getActiveSessions(req[r].uid) # {}
     /\ \E t \in TokenIds :
          tokens[t].isRevoked /\ tokens[t].revokedReason = "Password changed"

\* C34: in every reachable state, also when a successful and a failed
\* login of the same user overlap, a stored user with a lock date has at
\* least LockThreshold failed attempts; a counter of 0 is never locked.
C34_LockNeedsFailures ==
  \A u \in UserIds :
     users[u].lockUntil # NoDate => users[u].failedLoginAttempts >= LockThreshold

\* C35: with requests served one after the other, a rotation that is
\* answered 200 swaps one active token for another: the presented token was
\* active (stored, unrevoked, unexpired) when it was presented and is not
\* active afterwards, and the token handed out is a different one that is
\* active until it expires.  So the number of active tokens does not grow.
C35_RotationSwapsOneToken ==
  \A r \in Reqs :
     ( /\ req[r].pc = "done" /\ req[r].op \in RefreshOps
       /\ req[r].status = 200 )
       => /\ req[r].valid
          /\ req[r].tok \notin getActiveSessions(req[r].uid)
          /\ req[r].out # req[r].tok
          /\ tokens[req[r].out].expiresAt > now
               => req[r].out \in getActiveSessions(req[r].uid)

\* C36: a setup request (setupTOTP, setupSMS, setupEmail) answered for a
\* user whose MFA is enabled leaves the stored secret that verifyMFA checks
\* against as it was.
C36_SetupKeepsActiveSecret ==
  \A r \in Reqs :
     ( /\ req[r].pc = "done" /\ req[r].op \in MfaSetupOps
       /\ req[r].before.mfaEnabled )
       => users[req[r].uid].mfaSecret = req[r].before.mfaSecret

\* C37: changePassword is under the lockout policy.  A changePassword whose
\* current password fails the verification adds 1 to failedLoginAttempts
\* and sets lockUntil as a failed login does; a changePassword that arrives
\* while the account is locked is answered with an error at once, and
\* leaves every user record and every refresh token as it was.
C37_ChangePasswordLocks ==
  [][ \A r \in Reqs :
        /\ ( /\ req[r].op = "changePassword"
             /\ req[r].pc = "verify" /\ req'[r].pc = "done" )
             => LET u == req[r].uid
                    n == users[u].failedLoginAttempts + 1 IN
                /\ req'[r].status = 400
                /\ users'[u].failedLoginAttempts = n
                /\ users'[u].lockUntil = IF LockDuration(n) > 0
                                         THEN now + LockDuration(n)
                                         ELSE users[u].lockUntil
                /\ users'[u].password = users[u].password
                /\ tokens' = tokens
        /\ \A u \in UserIds :
             ( /\ req[r].pc = "idle" /\ req'[r].op = "changePassword"
               /\ req'[r].uid = u /\ req'[r].pw # req'[r].newpw
               /\ IsLocked(users[u], now) )
               => /\ req'[r].pc = "done" /\ req'[r].status >= 400
                  /\ users' = users /\ tokens' = tokens ]_vars

\* The fifth wrong current password of changePassword has locked the
\* account.
C37_Witness ==
  \E r \in Reqs :
     /\ req[r].pc = "done" /\ req[r].op = "changePassword"
     /\ req[r].msg = "Current password is incorrect"
     /\ req[r].before.failedLoginAttempts = LockThreshold - 1
     /\ users[req[r].uid].failedLoginAttempts = LockThreshold
     /\ IsLocked(users[req[r].uid], now)

\* C38: a lock ends.  With requests served one after the other, a login
\* with the correct password that arrives at lockUntil or later is not
\* rejected by the lock; a login with the correct password that passed the
\* lock test is answered 200 and leaves failedLoginAttempts = 0 and
\* lockUntil = null; and a login rejected by the lock leaves lockUntil and
\* the counter as they were.
C38_LockEnds ==
  /\ [](\A r \in Reqs :
         (req[r].pc = "done" /\ req[r].op = "login" /\ req[r].uid # 0)
           => /\ (Argon2Verify(req[r].before.password, req[r].pw) /\ ~req[r].locked)
                   => /\ req[r].status = 200
                      /\ users[req[r].uid].failedLoginAttempts = 0
                      /\ users[req[r].uid].lockUntil = NoDate
              /\ req[r].locked
                   => /\ users[req[r].uid].lockUntil = req[r].before.lockUntil
                      /\ users[req[r].uid].failedLoginAttempts
                           = req[r].before.failedLoginAttempts)
  /\ [][ \A r \in Reqs :
           ( /\ req[r].pc = "idle" /\ req'[r].op = "login" /\ req'[r].uid # 0
             /\ users[req'[r].uid].lockUntil <= now )
             => /\ ~req'[r].locked
                /\ req'[r].pc = "verify" ]_vars

\* A login with the correct password has succeeded at the instant the
\* lock of five or more failures ran out, and has reset the record.
C38_Witness ==
  \E r \in Reqs :
     /\ req[r].pc = "done" /\ req[r].op = "login" /\ req[r].status = 200
     /\ req[r].before.failedLoginAttempts >= LockThreshold
     /\ req[r].before.lockUntil # NoDate
     /\ users[req[r].uid].failedLoginAttempts = 0
     /\ users[req[r].uid].lockUntil = NoDate

\* C39: for every address with a rate-limit window, at most the hourly
\* maximum of messages has been delivered to it between the first counted
\* send of the window (one hour before resetTime) and resetTime, also when
\* sends to the address overlap.
C39_WindowAdmitsAtMostFive ==
  \A svc \in Services :
     \A to \in Recipients[svc] :
        LET limit == rateLimits[svc][to] IN
        limit # NoLimit =>
          Cardinality({ i \in DOMAIN delivered[svc][to] :
                          /\ delivered[svc][to][i] >= limit.resetTime - OneHour
                          /\ delivered[svc][to][i] <= limit.resetTime })
            <= MaxPerHour[svc]
====
